---------------------------- MODULE Spec2Model ----------------------------
(***************************************************************************)
(* Model of the Experfolio AI service's resilient orchestration code:      *)
(*   - app/core/result.py            Ok / Err and the ErrorType classes    *)
(*   - app/services/retry_executor.py   RetryExecutor.run                  *)
(*   - app/services/portfolio_processor.py   PortfolioProcessor.process    *)
(*   - app/services/batch_service.py   BatchService.process_single_...    *)
(*   - app/repositories/portfolio_repository.py, embedding_service.py,     *)
(*     file_handler.py, ocr_processor.py as far as the above call them;    *)
(*   - app/services/search_service.py   SearchService.search_portfolios    *)
(*     and its analysis fan-out, app/services/analysis_service.py,         *)
(*     app/api/routers/search.py   the POST /ai/search handler,            *)
(*     app/api/dependencies.py   get_search_service.                       *)
(*                                                                         *)
(* Each component has its own specification (SpecResult, SpecRetry,        *)
(* SpecItem, SpecRerun, SpecReprocess, SpecBatch, SpecSearch, SpecFanout,  *)
(* SpecBackoff, SpecAdmission, SpecBoundary); the variables of the other   *)
(* components stay at their initial values.                                *)
(* Python floats that only take whole values here (retry delays, sleep     *)
(* durations) are integers.                                                *)
(***************************************************************************)
EXTENDS Integers, Sequences, FiniteSets, TLC

VARIABLES
    \* ---- result.py: the Result object last constructed and what its
    \*      is_retryable / retry_delay properties returned when read (FALSE
    \*      and 0 while nothing was read: the object is None or an Ok)
    res, resRetryable, resDelay,
    prevRes, prevRetryable, prevDelay,
    \* ---- retry_executor.py: one RetryExecutor and one call of run()
    rx_max_retries, rx_initial_delay, rx_task,
    rx_pc, rx_attempt, rx_last_error_result, rx_return, rx_trace,
    \* ---- per-item processing: the document as stored in MongoDB, the
    \*      portfolio dict in memory (the fields the processing reads), the
    \*      last and the previous invocation of a per-item operation, and how
    \*      many invocations are still to come
    store, mem, inv, prev, runsLeft,
    \* ---- batch_service.py: the portfolios collection; the locals of one
    \*      process_daily_batch call; what it processed, in order; what it
    \*      returned; whether an exception took it to its except branch; the
    \*      scheduler's _last_result
    collection, batch, batch_log, batch_return, batch_raised, last_result,
    \* ---- search_service.py: the locals of one search_portfolios call, the
    \*      collaborators it called, what it returned; the settings read,
    \*      the semaphore's value, one task per reranked candidate, the
    \*      latest completion of an analysis call; the handler's answer;
    \*      the search requests the process is serving, each with the
    \*      SearchService its dependency built
    search, search_calls, search_return,
    settings, semaphore, tasks, analysis_event, http_response, requests

resultVars == <<res, resRetryable, resDelay, prevRes, prevRetryable, prevDelay>>
retryVars  == <<rx_max_retries, rx_initial_delay, rx_task,
                rx_pc, rx_attempt, rx_last_error_result, rx_return, rx_trace>>
itemVars   == <<store, mem, inv, prev, runsLeft>>
batchVars  == <<collection, batch, batch_log, batch_return, batch_raised, last_result>>
searchVars == <<search, search_calls, search_return,
               settings, semaphore, tasks, analysis_event, http_response,
               requests>>
vars == <<resultVars, retryVars, itemVars, batchVars, searchVars>>

\* Python's None where a Result is expected
None == [tag |-> "None"]

(***************************************************************************)
(* Bounds of the model.                                                    *)
(***************************************************************************)
NumCauses == 2          \* distinct underlying exceptions an error may wrap
MaxRetriesBound == 3    \* max_retries ranges over 0..MaxRetriesBound
MaxInitialDelay == 2    \* initial_delay ranges over 1..MaxInitialDelay

Causes == 1..NumCauses
ContextKeys == {"portfolio_id", "text_length"}
\* the context argument: None (the default) or a dict, given by its key set
NoContext == [given |-> FALSE, keys |-> {}]
Contexts == {NoContext} \cup {[given |-> TRUE, keys |-> k] : k \in SUBSET ContextKeys}

(***************************************************************************)
(* result.py                                                               *)
(***************************************************************************)
ErrorClasses == {"NetworkError", "RateLimitError", "TimeoutError",
                 "InvalidDataError", "AuthenticationError",
                 "ConfigurationError", "SystemError"}

\* ErrorType.__init__: self.error = error; self.context = context or {}
ErrorType(cls, error, context) ==
    [cls |-> cls, error |-> error,
     context |-> IF ~context.given \/ context.keys = {} THEN {} ELSE context.keys]

ErrorTypes == {ErrorType(c, e, x) : c \in ErrorClasses, e \in Causes, x \in Contexts}

\* the is_retryable() method each concrete class defines
is_retryable(error_type) ==
    CASE error_type.cls = "NetworkError"        -> TRUE
      [] error_type.cls = "RateLimitError"      -> TRUE
      [] error_type.cls = "TimeoutError"        -> TRUE
      [] error_type.cls = "InvalidDataError"    -> FALSE
      [] error_type.cls = "AuthenticationError" -> FALSE
      [] error_type.cls = "ConfigurationError"  -> FALSE
      [] error_type.cls = "SystemError"         -> FALSE

\* a retry_delay() that an instance's context can override
retry_delay_PerInstance(error_type) ==
    IF "text_length" \in error_type.context THEN 0
    ELSE IF error_type.cls \in {"NetworkError"} THEN 1
    ELSE IF error_type.cls = "RateLimitError" THEN 60
    ELSE IF error_type.cls = "TimeoutError" THEN 5
    ELSE 0

\* the retry_delay() method each concrete class defines (seconds)
retry_delay(error_type) ==
    CASE error_type.cls = "NetworkError"        -> 1
      [] error_type.cls = "RateLimitError"      -> 60
      [] error_type.cls = "TimeoutError"        -> 5
      [] error_type.cls = "InvalidDataError"    -> 0
      [] error_type.cls = "AuthenticationError" -> 0
      [] error_type.cls = "ConfigurationError"  -> 0
      [] error_type.cls = "SystemError"         -> 0

\* ErrorType.error_message: str(self.error)
error_message(error_type) == error_type.error

\* the two variants of Result
Ok(value) == [tag |-> "Ok", value |-> value]
Err(error_type) == [tag |-> "Err", error_type |-> error_type]

IsOk(r) == r.tag = "Ok"
IsErr(r) == r.tag = "Err"

\* Err.is_retryable / Err.retry_delay: properties delegating to error_type
Err_is_retryable(r) == is_retryable(r.error_type)
Err_retry_delay(r) == retry_delay(r.error_type)

ResultInit ==
    /\ res = None /\ resRetryable = FALSE /\ resDelay = 0
    /\ prevRes = None /\ prevRetryable = FALSE /\ prevDelay = 0

\* Construct an Err around a fresh ErrorType instance and read its properties.
MakeErr(cls, error, context) ==
    /\ res' = Err(ErrorType(cls, error, context))
    /\ resRetryable' = Err_is_retryable(res')
    /\ resDelay' = Err_retry_delay(res')
    /\ prevRes' = res /\ prevRetryable' = resRetryable /\ prevDelay' = resDelay
    /\ UNCHANGED <<retryVars, itemVars, batchVars, searchVars>>

\* Construct an Ok: it has no retry properties to read.
MakeOk(value) ==
    /\ res' = Ok(value)
    /\ resRetryable' = FALSE
    /\ resDelay' = 0
    /\ prevRes' = res /\ prevRetryable' = resRetryable /\ prevDelay' = resDelay
    /\ UNCHANGED <<retryVars, itemVars, batchVars, searchVars>>

ResultNext ==
    \/ \E cls \in ErrorClasses, error \in Causes, context \in Contexts :
          MakeErr(cls, error, context)
    \/ \E value \in Causes : MakeOk(value)

(***************************************************************************)
(* retry_executor.py                                                       *)
(*                                                                         *)
(* The task is any zero-argument coroutine.  Its behaviour is a script     *)
(* fixed in the initial state: rx_task[i+1] says what its invocation       *)
(* number i (from 0) does: returns Ok, returns an Err of one of the seven  *)
(* classes, or raises an Exception.  Every invocation makes its own        *)
(* object, identified by the invocation number.  run() invokes the task at *)
(* most max_retries times, so the script has that length.                  *)
(***************************************************************************)
TaskOutcomes == {"Ok", "Raise"} \cup ErrorClasses

Raise(exc) == [tag |-> "Raise", exc |-> exc]
IsRaise(r) == r.tag = "Raise"

\* what invocation number i of the scripted task does
TaskResult(script, i) ==
    CASE script[i + 1] = "Ok"    -> Ok(i)
      [] script[i + 1] = "Raise" -> Raise(i)
      [] OTHER                   -> Err(ErrorType(script[i + 1], i, NoContext))

RECURSIVE Pow(_, _)
Pow(b, n) == IF n = 0 THEN 1 ELSE b * Pow(b, n - 1)

\* a backoff that waits initial_delay before every retry
wait_time_Fixed(attempt) == rx_initial_delay

\* line 57: wait_time = self._initial_delay * (2 ** attempt)
wait_time(attempt) == rx_initial_delay * Pow(2, attempt)

\* a guard that retries every Err while attempts remain
retry_case_AnyErr(result, attempt) ==
    IsErr(result) /\ attempt < rx_max_retries - 1

\* a guard that also retries (and sleeps) on the final attempt
retry_case_NoBound(result, attempt) ==
    IsErr(result) /\ Err_is_retryable(result)

\* line 53: case Err() if result.is_retryable and attempt < self._max_retries - 1
retry_case(result, attempt) ==
    IsErr(result) /\ Err_is_retryable(result) /\ attempt < rx_max_retries - 1

\* an except clause that reports the exception as a NetworkError
on_exception_Network(e) == Err(ErrorType("NetworkError", e, NoContext))

\* lines 72-75: except Exception as e: return Err(SystemError(error=e))
on_exception(e) == Err(ErrorType("SystemError", e, NoContext))

TaskEvent(attempt) == [ev |-> "task", attempt |-> attempt]
SleepEvent(secs) == [ev |-> "sleep", secs |-> secs]

\* RetryExecutor(max_retries, initial_delay) constructed, a task at hand
RetryInit ==
    /\ rx_max_retries \in 0..MaxRetriesBound
    /\ rx_initial_delay \in 1..MaxInitialDelay
    /\ rx_task \in [1..rx_max_retries -> TaskOutcomes]
    /\ rx_pc = "idle" /\ rx_attempt = 0 /\ rx_last_error_result = None
    /\ rx_return = None /\ rx_trace = <<>>

\* run(task) is called: last_error_result = None, the loop starts at 0
Run ==
    /\ rx_pc = "idle"
    /\ rx_pc' = "loop"
    /\ rx_attempt' = 0
    /\ rx_last_error_result' = None
    /\ UNCHANGED <<rx_max_retries, rx_initial_delay, rx_task, rx_return, rx_trace>>
    /\ UNCHANGED <<resultVars, itemVars, batchVars, searchVars>>

\* one iteration of `for attempt in range(self._max_retries)`: await the
\* task, match its result, and either return or sleep and continue
Attempt ==
    /\ rx_pc = "loop"
    /\ rx_attempt < rx_max_retries
    /\ LET result == TaskResult(rx_task, rx_attempt)
           called == Append(rx_trace, TaskEvent(rx_attempt))
       IN  IF IsRaise(result)
           THEN /\ rx_return' = on_exception(result.exc)
                /\ rx_pc' = "done"
                /\ rx_trace' = called
                /\ UNCHANGED <<rx_attempt, rx_last_error_result>>
           ELSE IF IsOk(result)
           THEN /\ rx_return' = result
                /\ rx_pc' = "done"
                /\ rx_trace' = called
                /\ UNCHANGED <<rx_attempt, rx_last_error_result>>
           ELSE IF retry_case(result, rx_attempt)
           THEN /\ rx_last_error_result' = result
                /\ rx_trace' = Append(called, SleepEvent(wait_time(rx_attempt)))
                /\ rx_attempt' = rx_attempt + 1
                /\ UNCHANGED <<rx_pc, rx_return>>
           ELSE /\ rx_return' = result
                /\ rx_pc' = "done"
                /\ rx_trace' = called
                /\ UNCHANGED <<rx_attempt, rx_last_error_result>>
    /\ UNCHANGED <<rx_max_retries, rx_initial_delay, rx_task>>
    /\ UNCHANGED <<resultVars, itemVars, batchVars, searchVars>>

\* the range is exhausted: return last_error_result (line 78)
LoopExit ==
    /\ rx_pc = "loop"
    /\ rx_attempt >= rx_max_retries
    /\ rx_return' = rx_last_error_result
    /\ rx_pc' = "done"
    /\ UNCHANGED <<rx_max_retries, rx_initial_delay, rx_task, rx_attempt,
                   rx_last_error_result, rx_trace>>
    /\ UNCHANGED <<resultVars, itemVars, batchVars, searchVars>>

RetryNext == Run \/ Attempt \/ LoopExit

(***************************************************************************)
(* Python strings are sequences of code points.                            *)
(***************************************************************************)
\* str.strip() removes leading and trailing whitespace
Whitespace == {9, 10, 11, 12, 13, 32}

RECURSIVE lstrip(_)
lstrip(s) ==
    IF s = <<>> THEN s
    ELSE IF Head(s) \in Whitespace THEN lstrip(Tail(s)) ELSE s

RECURSIVE rstrip(_)
rstrip(s) ==
    IF s = <<>> THEN s
    ELSE IF s[Len(s)] \in Whitespace THEN rstrip(SubSeq(s, 1, Len(s) - 1)) ELSE s

strip(s) == rstrip(lstrip(s))

\* sep.join(parts)
RECURSIVE join(_, _)
join(sep, parts) ==
    IF parts = <<>> THEN <<>>
    ELSE IF Len(parts) = 1 THEN parts[1]
    ELSE parts[1] \o sep \o join(sep, Tail(parts))

\* list.extend over a list of lists
RECURSIVE flatten(_)
flatten(lists) ==
    IF lists = <<>> THEN <<>> ELSE Head(lists) \o flatten(Tail(lists))

\* bool(s) of a str (a missing dict key reads as the empty string here:
\* d.get(k) is falsy either way)
truthy(s) == s # <<>>

\* the literals of the f-strings in _collect_texts
STR ==
    [name      |-> <<51060, 47492, 58, 32>>,
     school    |-> <<54617, 44368, 58, 32>>,
     major     |-> <<51204, 44277, 58, 32>>,
     position  |-> <<55148, 47581, 51649, 47924, 58, 32>>,
     award     |-> <<49688, 49345, 58, 32>>,
     dash      |-> <<32, 45, 32>>,
     open      |-> <<32, 40>>,
     year      |-> <<45380, 41>>,
     cert      |-> <<51088, 44201, 51613, 58, 32>>,
     issued    |-> <<45380, 32, 52712, 46301, 41>>,
     lang      |-> <<50612, 54617, 58, 32>>,
     space     |-> <<32>>,
     title     |-> <<51228, 47785, 58, 32>>,
     separator |-> <<10, 10>>]

(***************************************************************************)
(* portfolio_processor.py and batch_service.py: text collection            *)
(*                                                                         *)
(* A portfolio document is                                                 *)
(*   [basicInfo |-> [name, schoolName, major, desiredPosition,             *)
(*                   awards, certifications, languages],                   *)
(*    portfolioItems |-> <<[title, content,                                *)
(*                          attachments |-> <<[filePath,                   *)
(*                                             extractionStatus]>>]>>,     *)
(*    needsEmbedding, searchableText, kureVector]                          *)
(* with extractionStatus "unset" when the key is missing.                  *)
(***************************************************************************)
\* PortfolioProcessor._collect_texts: the basicInfo scalars, lines 77-81
\* (BatchService._collect_texts lines 218-227 are the same)
basic_texts(basic_info) ==
       (IF truthy(basic_info.name) THEN <<STR.name \o basic_info.name>> ELSE <<>>)
    \o (IF truthy(basic_info.schoolName)
        THEN <<STR.school \o basic_info.schoolName>> ELSE <<>>)
    \o (IF truthy(basic_info.major) THEN <<STR.major \o basic_info.major>> ELSE <<>>)
    \o (IF truthy(basic_info.desiredPosition)
        THEN <<STR.position \o basic_info.desiredPosition>> ELSE <<>>)

\* PortfolioProcessor._collect_texts: portfolioItems, lines 102-104
\* (BatchService._collect_texts lines 238-242 are the same)
item_texts(portfolio_items) ==
    flatten([i \in 1..Len(portfolio_items) |->
        (IF truthy(portfolio_items[i].title)
         THEN <<STR.title \o portfolio_items[i].title>> ELSE <<>>)
        \o (IF truthy(portfolio_items[i].content)
            THEN <<portfolio_items[i].content>> ELSE <<>>)])

\* PortfolioProcessor._collect_texts (with the year of each entry)
PP_collect_texts(portfolio) ==
    LET basic_info == portfolio.basicInfo
        awards == basic_info.awards
        certs == basic_info.certifications
        langs == basic_info.languages
    IN  basic_texts(basic_info)
        \o [i \in 1..Len(awards) |->
              STR.award \o awards[i].awardName \o STR.dash \o awards[i].achievement
              \o (IF truthy(awards[i].awardY)
                  THEN STR.open \o awards[i].awardY \o STR.year ELSE <<>>)]
        \o [i \in 1..Len(certs) |->
              STR.cert \o certs[i].certificationName
              \o (IF truthy(certs[i].issueY)
                  THEN STR.open \o certs[i].issueY \o STR.issued ELSE <<>>)]
        \o [i \in 1..Len(langs) |->
              STR.lang \o langs[i].testName \o STR.space \o langs[i].score
              \o (IF truthy(langs[i].issueY)
                  THEN STR.open \o langs[i].issueY \o STR.issued ELSE <<>>)]
        \o item_texts(portfolio.portfolioItems)

\* BatchService._collect_texts (no years)
BS_collect_texts(portfolio) ==
    LET basic_info == portfolio.basicInfo
        awards == basic_info.awards
        certs == basic_info.certifications
        langs == basic_info.languages
    IN  basic_texts(basic_info)
        \o [i \in 1..Len(awards) |->
              STR.award \o awards[i].awardName \o STR.dash \o awards[i].achievement]
        \o [i \in 1..Len(certs) |-> STR.cert \o certs[i].certificationName]
        \o [i \in 1..Len(langs) |->
              STR.lang \o langs[i].testName \o STR.space \o langs[i].score]
        \o item_texts(portfolio.portfolioItems)

\* _create_searchable_text (the same in both classes)
create_searchable_text(texts) ==
    LET kept == SelectSeq(texts, LAMBDA t : truthy(t) /\ truthy(strip(t)))
        clean_texts == [i \in 1..Len(kept) |-> strip(kept[i])]
    IN  join(STR.separator, clean_texts)

(***************************************************************************)
(* Collaborators of the per-item processing.                               *)
(*                                                                         *)
(* What the file system, the OCR engine, the embedding model and MongoDB   *)
(* do is chosen anew at every invocation: `files` gives the state of the   *)
(* file behind each attachment (by item and attachment position), `encode` *)
(* what SentenceTransformer.encode does, `db` what update_one does.        *)
(***************************************************************************)
FileStates == {"absent", "unreadable", "blank", "text"}
EncodeOutcomes == {"ok", "MemoryError", "Exception"}
\* update_one modified the document, or did not (no document matched, or a
\* PyMongoError, which the repository turns into the same False)
DbOutcomes == {"modified", "unmodified"}
\* update_one raising what is not a PyMongoError (a bson error on the id or
\* on the document), which the repository lets through
DbFaults == {"InvalidDocument"}
\* what the embedding model and MongoDB do in one invocation: an invocation
\* whose encode fails never reaches the database, so the database's outcome
\* varies only beside a successful encode
Collaborations ==
    {env \in EncodeOutcomes \X (DbOutcomes \cup DbFaults) :
        env[1] # "ok" => env[2] = "modified"}

\* FileHandler.file_exists
file_exists(file) == file # "absent"

\* FileHandler.read_file raises (PermissionError, ...) on an unreadable file
read_file_raises(file) == file = "unreadable"

\* what the OCR engine reads in the file at attachment j of item i: "x<i><j>"
\* stripped, or nothing (no text in it, or _extract_from_* caught a failure
\* and returned "")
ocr_text(file, i, j) == IF file = "text" THEN <<120, 48 + i, 48 + j>> ELSE <<>>

\* line 130: '.' + file_path.split('.')[-1].lower(), on the paths modelled
file_extension(file_path) ==
    CASE file_path = "scan.pdf" -> ".pdf"
      [] file_path = "note.hwp" -> ".hwp"

\* OCRProcessor._supported_formats
supported_formats == {".pdf", ".png", ".jpg", ".jpeg"}

\* OCRProcessor.extract_text: ValueError on an unsupported extension,
\* otherwise the text (empty on an internal failure)
extract_text(text, ext) ==
    IF ext \notin supported_formats
    THEN [raised |-> TRUE, text |-> <<>>]
    ELSE [raised |-> FALSE, text |-> text]

Call(name, i, j) == [call |-> name, item |-> i, att |-> j]

\* an attachment step that leaves the status alone when the file is absent
PP_attachment_AbsentUntouched(attachment, i, j, file) ==
    LET skip == [attachment |-> attachment, texts |-> <<>>, calls |-> <<>>]
        mark(status, texts, calls) ==
            [attachment |-> [attachment EXCEPT !.extractionStatus = status],
             texts |-> texts, calls |-> calls]
        exists == <<Call("file_exists", i, j)>>
        read == exists \o <<Call("read_file", i, j)>>
        extract == read \o <<Call("extract_text", i, j)>>
        extracted == extract_text(ocr_text(file, i, j),
                                  file_extension(attachment.filePath))
    IN  IF attachment.extractionStatus = "completed" THEN skip
        ELSE IF attachment.filePath = "" THEN skip
        ELSE IF ~file_exists(file)
             THEN [attachment |-> attachment, texts |-> <<>>, calls |-> exists]
        ELSE IF read_file_raises(file) THEN mark("failed", <<>>, read)
        ELSE IF extracted.raised THEN mark("failed", <<>>, extract)
        ELSE IF truthy(extracted.text)
             THEN mark("completed", <<extracted.text>>, extract)
        ELSE mark("completed", <<>>, extract)

\* PortfolioProcessor._process_attachments, lines 116-143: one attachment
PP_attachment(attachment, i, j, file) ==
    LET skip == [attachment |-> attachment, texts |-> <<>>, calls |-> <<>>]
        mark(status, texts, calls) ==
            [attachment |-> [attachment EXCEPT !.extractionStatus = status],
             texts |-> texts, calls |-> calls]
        exists == <<Call("file_exists", i, j)>>
        read == exists \o <<Call("read_file", i, j)>>
        extract == read \o <<Call("extract_text", i, j)>>
        extracted == extract_text(ocr_text(file, i, j),
                                  file_extension(attachment.filePath))
    IN  IF attachment.extractionStatus = "completed" THEN skip
        ELSE IF attachment.filePath = "" THEN skip
        ELSE IF ~file_exists(file) THEN mark("failed", <<>>, exists)
        ELSE IF read_file_raises(file) THEN mark("failed", <<>>, read)
        ELSE IF extracted.raised THEN mark("failed", <<>>, extract)
        ELSE IF truthy(extracted.text)
             THEN mark("completed", <<extracted.text>>, extract)
        ELSE mark("completed", <<>>, extract)

\* BatchService._process_attachments, lines 252-278: one attachment (no
\* status is read or written)
BS_attachment(attachment, i, j, file) ==
    LET none(calls) == [attachment |-> attachment, texts |-> <<>>, calls |-> calls]
        exists == <<Call("file_exists", i, j)>>
        read == exists \o <<Call("read_file", i, j)>>
        extract == read \o <<Call("extract_text", i, j)>>
        extracted == extract_text(ocr_text(file, i, j),
                                  file_extension(attachment.filePath))
    IN  IF attachment.filePath = "" THEN none(<<>>)
        ELSE IF ~file_exists(file) THEN none(exists)
        ELSE IF read_file_raises(file) THEN none(read)
        ELSE IF extracted.raised THEN none(extract)
        ELSE IF truthy(extracted.text)
             THEN [attachment |-> attachment, texts |-> <<extracted.text>>,
                   calls |-> extract]
        ELSE none(extract)

\* what the two nested loops over portfolioItems and their attachments leave,
\* `done` holding the outcome of the step on every attachment, in order
attachment_loops(done, portfolio) ==
    LET items == portfolio.portfolioItems
        each(field(_)) ==
            flatten([i \in 1..Len(items) |->
                flatten([j \in 1..Len(done[i]) |-> field(done[i][j])])])
    IN  [texts |-> each(LAMBDA d : d.texts),
         calls |-> each(LAMBDA d : d.calls),
         portfolio |->
            [portfolio EXCEPT !.portfolioItems =
                [i \in 1..Len(items) |->
                    [items[i] EXCEPT !.attachments =
                        [j \in 1..Len(done[i]) |-> done[i][j].attachment]]]]]

\* PortfolioProcessor._process_attachments
PP_process_attachments(portfolio, files) ==
    LET items == portfolio.portfolioItems
    IN  attachment_loops(
            [i \in 1..Len(items) |->
                [j \in 1..Len(items[i].attachments) |->
                    PP_attachment(items[i].attachments[j], i, j, files[<<i, j>>])]],
            portfolio)

\* BatchService._process_attachments
BS_process_attachments(portfolio, files) ==
    LET items == portfolio.portfolioItems
    IN  attachment_loops(
            [i \in 1..Len(items) |->
                [j \in 1..Len(items[i].attachments) |->
                    BS_attachment(items[i].attachments[j], i, j, files[<<i, j>>])]],
            portfolio)

\* EmbeddingService truncates passages longer than this
MaxPassageChars == 20000

\* the vector SentenceTransformer.encode returns for a text
vector_of(text) == [vector_of |-> text]
NoVector == vector_of(<<>>)

\* EmbeddingService.embed_passage
embed_passage(text, encode) ==
    IF ~truthy(text) \/ ~truthy(strip(text))
    THEN Err(ErrorType("InvalidDataError", "ValueError: Text cannot be empty",
                       [given |-> TRUE, keys |-> {"text_length"}]))
    ELSE IF encode = "ok"
    THEN Ok(vector_of(strip(IF Len(text) > MaxPassageChars
                            THEN SubSeq(text, 1, MaxPassageChars) ELSE text)))
    ELSE Err(ErrorType("SystemError", encode,
                       [given |-> TRUE, keys |-> {"text_length"}]))

\* PortfolioRepository.update_embeddings: one update_one with $set; True only
\* when a document was modified, False also on PyMongoError
update_embeddings(stored, searchable_text, kure_vector, db) ==
    IF db = "modified"
    THEN [returned |-> TRUE, raised |-> FALSE,
          stored |-> [stored EXCEPT !.searchableText = searchable_text,
                                    !.kureVector = kure_vector,
                                    !.needsEmbedding = FALSE]]
    ELSE [returned |-> FALSE, raised |-> db \in DbFaults, stored |-> stored]

\* portfolio_repo.update_embeddings_and_status(id, text, vector, items): not
\* defined in portfolio_repository.py; after the storage interface
\* UpdateItemAndClearNeedsEmbedding(id, text, vector, attachments) -> bool
update_embeddings_and_status(stored, searchable_text, kure_vector, items, db) ==
    IF db = "modified"
    THEN [returned |-> TRUE, raised |-> FALSE,
          stored |-> [stored EXCEPT !.searchableText = searchable_text,
                                    !.kureVector = kure_vector,
                                    !.portfolioItems = items,
                                    !.needsEmbedding = FALSE]]
    ELSE [returned |-> FALSE, raised |-> db \in DbFaults, stored |-> stored]

\* portfolio_repo.mark_as_processed(id): not defined in
\* portfolio_repository.py; after the storage interface
\* MarkProcessedOnly(id) -> bool
mark_as_processed(stored, db) ==
    IF db = "modified"
    THEN [returned |-> TRUE, raised |-> FALSE,
          stored |-> [stored EXCEPT !.needsEmbedding = FALSE]]
    ELSE [returned |-> FALSE, raised |-> db \in DbFaults, stored |-> stored]

\* str(portfolio['_id']) of the one document of the model
portfolio_id == "p1"
WithPortfolioId == [given |-> TRUE, keys |-> {"portfolio_id"}]

\* the persistence-failure branch returning Ok
PP_update_failed_Ok == Ok(portfolio_id)
BS_update_failed_Ok == Ok(portfolio_id)
\* the embedding-failure branch re-wrapping the error as a NetworkError
PP_embedding_failed_Rewrapped(embedding_result) ==
    Err(ErrorType("NetworkError", embedding_result.error_type.error, WithPortfolioId))

\* portfolio_processor.py line 65
PP_update_failed ==
    Err(ErrorType("NetworkError", "Exception: DB update failed", WithPortfolioId))
\* batch_service.py lines 195-198
BS_update_failed ==
    Err(ErrorType("NetworkError", "Exception: MongoDB update failed", WithPortfolioId))
\* portfolio_processor.py lines 67-68: case Err(): return embedding_result
PP_embedding_failed(embedding_result) == embedding_result
\* batch_service.py lines 200-205: case Err(): return embedding_result
BS_embedding_failed(embedding_result) == embedding_result

\* portfolio_processor.py lines 70-72: except Exception
PP_unexpected(e) == Err(ErrorType("SystemError", e, WithPortfolioId))
\* batch_service.py lines 207-212: except Exception
BS_unexpected(e) == Err(ErrorType("NetworkError", e, WithPortfolioId))

\* the statuses of the attachment step saved although the invocation failed
no_write_StatusesSaved(stored, portfolio) ==
    [stored EXCEPT !.portfolioItems = portfolio.portfolioItems]
\* portfolio_processor.py lines 67-72, batch_service.py lines 173-178 and
\* 200-212: the paths that return without a repository call that writes
no_write(stored, portfolio) == stored

\* PortfolioProcessor.process on the in-memory portfolio, with the stored
\* document `stored`: the Result, the collaborator calls in order, the
\* searchable text, the portfolio as mutated in memory, the stored document
\* afterwards
PP_process(portfolio, stored, files, encode, db) ==
    LET attached == PP_process_attachments(portfolio, files)
        texts == PP_collect_texts(portfolio) \o attached.texts
        searchable_text == create_searchable_text(texts)
        embedding_result == embed_passage(searchable_text, encode)
        marked == mark_as_processed(stored, db)
        updated == update_embeddings_and_status(
                       stored, searchable_text, embedding_result.value,
                       attached.portfolio.portfolioItems, db)
        out(result, calls, after) ==
            [result |-> result, calls |-> attached.calls \o calls,
             searchable_text |-> searchable_text,
             portfolio |-> attached.portfolio, stored |-> after]
    IN  IF ~truthy(searchable_text)
        THEN IF marked.raised
             THEN out(PP_unexpected(db), <<Call("mark_as_processed", 0, 0)>>,
                      no_write(stored, attached.portfolio))
             ELSE out(Ok(portfolio_id), <<Call("mark_as_processed", 0, 0)>>,
                      marked.stored)
        ELSE IF IsOk(embedding_result)
        THEN IF updated.raised
             THEN out(PP_unexpected(db),
                      <<Call("embed_passage", 0, 0),
                        Call("update_embeddings_and_status", 0, 0)>>,
                      no_write(stored, attached.portfolio))
             ELSE IF updated.returned
             THEN out(Ok(portfolio_id),
                      <<Call("embed_passage", 0, 0),
                        Call("update_embeddings_and_status", 0, 0)>>,
                      updated.stored)
             ELSE out(PP_update_failed,
                      <<Call("embed_passage", 0, 0),
                        Call("update_embeddings_and_status", 0, 0)>>,
                      updated.stored)
        ELSE out(PP_embedding_failed(embedding_result),
                 <<Call("embed_passage", 0, 0)>>,
                 no_write(stored, attached.portfolio))

\* BatchService.process_single_portfolio, likewise
BS_process(portfolio, stored, files, encode, db) ==
    LET attached == BS_process_attachments(portfolio, files)
        texts == BS_collect_texts(portfolio) \o attached.texts
        searchable_text == create_searchable_text(texts)
        embedding_result == embed_passage(searchable_text, encode)
        updated == update_embeddings(stored, searchable_text,
                                     embedding_result.value, db)
        out(result, calls, after) ==
            [result |-> result, calls |-> attached.calls \o calls,
             searchable_text |-> searchable_text,
             portfolio |-> attached.portfolio, stored |-> after]
    IN  IF ~truthy(searchable_text)
        THEN out(Err(ErrorType("InvalidDataError", "ValueError: No searchable text",
                               WithPortfolioId)),
                 <<>>, no_write(stored, attached.portfolio))
        ELSE IF IsOk(embedding_result)
        THEN IF updated.raised
             THEN out(BS_unexpected(db),
                      <<Call("embed_passage", 0, 0), Call("update_embeddings", 0, 0)>>,
                      no_write(stored, attached.portfolio))
             ELSE IF updated.returned
             THEN out(Ok(portfolio_id),
                      <<Call("embed_passage", 0, 0), Call("update_embeddings", 0, 0)>>,
                      updated.stored)
             ELSE out(BS_update_failed,
                      <<Call("embed_passage", 0, 0), Call("update_embeddings", 0, 0)>>,
                      updated.stored)
        ELSE out(BS_embedding_failed(embedding_result),
                 <<Call("embed_passage", 0, 0)>>,
                 no_write(stored, attached.portfolio))

(***************************************************************************)
(* The documents the per-item processing is run on.                        *)
(***************************************************************************)
BlankInfo ==
    [name |-> <<>>, schoolName |-> <<>>, major |-> <<>>, desiredPosition |-> <<>>,
     awards |-> <<>>, certifications |-> <<>>, languages |-> <<>>]
FullInfo ==
    [name |-> <<97>>, schoolName |-> <<115>>, major |-> <<32, 109>>,
     desiredPosition |-> <<100>>,
     awards |-> <<[awardName |-> <<119>>, achievement |-> <<>>, awardY |-> <<50, 52>>]>>,
     certifications |-> <<[certificationName |-> <<99>>, issueY |-> <<>>]>>,
     languages |-> <<[testName |-> <<116>>, score |-> <<57>>, issueY |-> <<50, 51>>]>>]

NoFields == [title |-> <<>>, content |-> <<>>]
SomeFields == [title |-> <<116>>, content |-> <<32, 99, 32>>]

\* text fields of a document: none at all, or every basicInfo field and a
\* title and a content in every portfolio item
Profiles ==
    {[info |-> BlankInfo, fields |-> NoFields],
     [info |-> FullInfo,  fields |-> SomeFields]}

Attachment(file_path, status) == [filePath |-> file_path, extractionStatus |-> status]
\* an attachment without a path, one of a supported format that failed
\* before, one already completed, one of a format with no extractor
AttachmentKinds ==
    {Attachment("", "unset"),
     Attachment("scan.pdf", "failed"), Attachment("scan.pdf", "completed"),
     Attachment("note.hwp", "unset")}

MaxPortfolioItems == 2   \* portfolioItems of a document
MaxAttachments == 2      \* attachments of a document, over all its items

RECURSIVE SeqSum(_)
SeqSum(s) == IF s = <<>> THEN 0 ELSE Head(s) + SeqSum(Tail(s))

\* how many attachments each portfolio item has
Shapes ==
    UNION {{sh \in [1..n -> 0..MaxAttachments] : SeqSum(sh) <= MaxAttachments}
           : n \in 0..MaxPortfolioItems}

ItemsOfShape(sh, flat, fields) ==
    [i \in 1..Len(sh) |->
        [title |-> fields.title, content |-> fields.content,
         attachments |-> [j \in 1..sh[i] |-> flat[SeqSum(SubSeq(sh, 1, i - 1)) + j]]]]

PortfoliosOver(kinds) ==
    UNION {{[basicInfo |-> pr.info,
             portfolioItems |-> ItemsOfShape(sh, flat, pr.fields)]
            : pr \in Profiles, flat \in [1..SeqSum(sh) -> kinds]}
           : sh \in Shapes}

Portfolios == PortfoliosOver(AttachmentKinds)
CompletedPortfolios == PortfoliosOver({Attachment("scan.pdf", "completed")})

\* the (item, attachment) positions of a portfolio
Positions(portfolio) ==
    UNION {{<<i, j>> : j \in 1..Len(portfolio.portfolioItems[i].attachments)}
           : i \in 1..Len(portfolio.portfolioItems)}

\* the states of the files behind the attachments of a portfolio: there is
\* no file behind an attachment without a path
FilesOf(portfolio) ==
    {files \in [Positions(portfolio) -> FileStates] :
        \A pos \in Positions(portfolio) :
            portfolio.portfolioItems[pos[1]].attachments[pos[2]].filePath = ""
                => files[pos] = "absent"}

\* the document as find_needing_embedding selects it:
\* processingStatus.needsEmbedding is true
Stored(portfolio) ==
    [basicInfo |-> portfolio.basicInfo,
     portfolioItems |-> portfolio.portfolioItems,
     needsEmbedding |-> TRUE,
     searchableText |-> <<>>,
     kureVector |-> NoVector]

NoInvocation == [impl |-> "none"]

ItemIdle ==
    /\ mem = [basicInfo |-> BlankInfo, portfolioItems |-> <<>>]
    /\ store = Stored(mem)
    /\ inv = NoInvocation /\ prev = NoInvocation
    /\ runsLeft = 0

\* one selected document, loaded in memory, to be processed once
ItemInit ==
    /\ mem \in Portfolios
    /\ store = Stored(mem)
    /\ inv = NoInvocation /\ prev = NoInvocation
    /\ runsLeft = 1

\* one selected document whose attachments are all completed, to be
\* processed twice (a retry, or the next run)
RerunInit ==
    /\ mem \in CompletedPortfolios
    /\ store = Stored(mem)
    /\ inv = NoInvocation /\ prev = NoInvocation
    /\ runsLeft = 2

\* a document whose attachments all failed before, processed and then
\* processed again: retried on the same dict, or picked up by a later run
FailedPortfolios == PortfoliosOver({Attachment("scan.pdf", "failed")})
ReprocessInit ==
    /\ mem \in FailedPortfolios
    /\ store = Stored(mem)
    /\ inv = NoInvocation /\ prev = NoInvocation
    /\ runsLeft = 2

\* what is recorded of an invocation: the portfolio and the stored document
\* it started from, what the collaborators did, what it called and returned
Invocation(impl, files, encode, db, r) ==
    [impl |-> impl, input |-> mem, stored_before |-> store,
     files |-> files, encode |-> encode, db |-> db,
     result |-> r.result, calls |-> r.calls, searchable_text |-> r.searchable_text]

\* await PortfolioProcessor.process(portfolio); a deployment runs one of the
\* two per-item operations, so a second invocation is of the same one
PP_Process ==
    /\ runsLeft > 0
    /\ inv.impl \in {"none", "PortfolioProcessor"}
    /\ \E files \in FilesOf(mem), env \in Collaborations :
          LET encode == env[1]
              db == env[2]
              r == PP_process(mem, store, files, encode, db)
          IN  /\ inv' = Invocation("PortfolioProcessor", files, encode, db, r)
              /\ mem' = r.portfolio
              /\ store' = r.stored
    /\ prev' = inv
    /\ runsLeft' = runsLeft - 1
    /\ UNCHANGED <<resultVars, retryVars, batchVars, searchVars>>

\* await BatchService.process_single_portfolio(portfolio)
BS_ProcessSingle ==
    /\ runsLeft > 0
    /\ inv.impl \in {"none", "BatchService"}
    /\ \E files \in FilesOf(mem), env \in Collaborations :
          LET encode == env[1]
              db == env[2]
              r == BS_process(mem, store, files, encode, db)
          IN  /\ inv' = Invocation("BatchService", files, encode, db, r)
              /\ mem' = r.portfolio
              /\ store' = r.stored
    /\ prev' = inv
    /\ runsLeft' = runsLeft - 1
    /\ UNCHANGED <<resultVars, retryVars, batchVars, searchVars>>

ItemNext == PP_Process \/ BS_ProcessSingle


(***************************************************************************)
(* batch_service.py: BatchService.process_daily_batch, as the scheduler's  *)
(* BatchScheduler._execute_batch runs it.                                  *)
(*                                                                         *)
(* `collection` is db.portfolios: document number i has _id i.  The run is *)
(* cut at its awaits: the selection query, one iteration of the loop per   *)
(* selected portfolio, the summary.  processingTime is not modelled.       *)
(***************************************************************************)
MaxDocs == 3   \* documents in the collection

\* BatchService.__init__: self._max_retries = 3
BS_max_retries == 3

\* the documents of a collection: without any text, with text fields, with
\* one attachment that failed before
BatchDocs ==
    {[basicInfo |-> BlankInfo, portfolioItems |-> <<>>],
     [basicInfo |-> FullInfo, portfolioItems |-> <<>>],
     [basicInfo |-> BlankInfo,
      portfolioItems |-> ItemsOfShape(<<1>>, <<Attachment("scan.pdf", "failed")>>,
                                      NoFields)]}

StoredDocs ==
    {[Stored(d) EXCEPT !.needsEmbedding = flag] : d \in BatchDocs, flag \in BOOLEAN}

\* str(portfolio['_id'])
str_id(oid) == <<48 + oid>>

\* the dict motor returns for a stored document
Loaded(oid, stored) ==
    [oid |-> oid, basicInfo |-> stored.basicInfo,
     portfolioItems |-> stored.portfolioItems]

RECURSIVE SelectIds(_, _)
SelectIds(coll, oid) ==
    IF oid > Len(coll) THEN <<>>
    ELSE (IF coll[oid].needsEmbedding = TRUE
          THEN <<Loaded(oid, coll[oid])>> ELSE <<>>) \o SelectIds(coll, oid + 1)

\* PortfolioRepository.find_needing_embedding:
\* find({"processingStatus.needsEmbedding": True})
find_needing_embedding(coll) == SelectIds(coll, 1)

BatchResult(total, success, failed, failedIds) ==
    [total |-> total, success |-> success, failed |-> failed, failedIds |-> failedIds]

\* lines 78-81
BatchLocals(portfolios) ==
    [pc |-> "loop", portfolios |-> portfolios, i |-> 1,
     success_count |-> 0, failed_count |-> 0, failed_ids |-> <<>>, retry_ids |-> <<>>]
BatchIdle ==
    [pc |-> "idle", portfolios |-> <<>>, i |-> 1,
     success_count |-> 0, failed_count |-> 0, failed_ids |-> <<>>, retry_ids |-> <<>>]

\* a match that does not count a permanent failure
classify_PermanentUncounted(b, pid, result) ==
    IF IsOk(result)
    THEN [b EXCEPT !.success_count = @ + 1]
    ELSE IF Err_is_retryable(result)
    THEN [b EXCEPT !.failed_count = @ + 1,
                   !.retry_ids = Append(@, pid)]
    ELSE [b EXCEPT !.failed_ids = Append(@, pid)]

\* lines 89-108: match result
classify(b, pid, result) ==
    IF IsOk(result)
    THEN [b EXCEPT !.success_count = @ + 1]
    ELSE IF Err_is_retryable(result)
    THEN [b EXCEPT !.failed_count = @ + 1,
                   !.retry_ids = Append(@, pid)]
    ELSE [b EXCEPT !.failed_count = @ + 1,
                   !.failed_ids = Append(@, pid)]

\* an except branch that reports what was counted so far
on_batch_exception_Partial(b) ==
    BatchResult(Len(b.portfolios), b.success_count, b.failed_count, b.failed_ids)

\* lines 134-144: except Exception
on_batch_exception(b) == BatchResult(0, 0, 0, <<>>)

\* an empty selection that goes on to the loop's summary with a count of one
no_portfolios_Counted == BatchResult(0, 0, 1, <<>>)

\* lines 68-76: total == 0
no_portfolios == BatchResult(0, 0, 0, <<>>)

\* process_daily_batch returns `summary`; _execute_batch keeps it (line 102)
BatchReturns(summary, raised) ==
    /\ batch_return' = summary
    /\ last_result' = summary
    /\ batch' = [batch EXCEPT !.pc = "done"]
    /\ batch_raised' = raised

BatchInit ==
    /\ \E n \in 0..MaxDocs : collection \in [1..n -> StoredDocs]
    /\ batch = BatchIdle
    /\ batch_log = <<>>
    /\ batch_return = None
    /\ batch_raised = "no"
    /\ last_result = None

BatchUnused ==
    /\ collection = <<>>
    /\ batch = BatchIdle
    /\ batch_log = <<>>
    /\ batch_return = None
    /\ batch_raised = "no"
    /\ last_result = None

\* lines 62-81: the selection query, which raises what motor raises
Select ==
    /\ batch.pc = "idle"
    /\ \E query \in {"ok", "PyMongoError"} :
          LET portfolios == find_needing_embedding(collection)
          IN  IF query # "ok"
              THEN BatchReturns(on_batch_exception(batch), "select")
              ELSE IF Len(portfolios) = 0
              THEN BatchReturns(no_portfolios, "no")
              ELSE /\ batch' = BatchLocals(portfolios)
                   /\ UNCHANGED <<batch_return, last_result, batch_raised>>
    /\ UNCHANGED <<collection, batch_log>>
    /\ UNCHANGED <<resultVars, retryVars, itemVars, searchVars>>

\* a loop that passes over the portfolio after the one it processed
next_index_Skipping(i) == i + 2
\* line 83: for i, portfolio in enumerate(portfolios)
next_index(i) == i + 1

\* lines 83-108: one iteration of the loop.  An exception raised in the body
\* outside process_single_portfolio's own try (lines 84-85, 158) leaves the
\* loop for the except branch of line 134.
ProcessNext ==
    /\ batch.pc = "loop"
    /\ batch.i <= Len(batch.portfolios)
    /\ LET portfolio == batch.portfolios[batch.i]
           pid == str_id(portfolio.oid)
           dict == [basicInfo |-> portfolio.basicInfo,
                    portfolioItems |-> portfolio.portfolioItems]
       IN  \/ /\ BatchReturns(on_batch_exception(batch), "loop")
              /\ UNCHANGED <<collection, batch_log>>
           \/ \E files \in FilesOf(dict), env \in Collaborations :
                 LET r == BS_process(dict, collection[portfolio.oid],
                                     files, env[1], env[2])
                 IN  /\ collection' = [collection EXCEPT ![portfolio.oid] = r.stored]
                     /\ batch_log' = Append(batch_log,
                            [portfolio_id |-> pid, result |-> r.result,
                             calls |-> r.calls])
                     /\ batch' = [classify(batch, pid, r.result)
                                     EXCEPT !.i = next_index(@)]
                     /\ UNCHANGED <<batch_return, last_result, batch_raised>>
    /\ UNCHANGED <<resultVars, retryVars, itemVars, searchVars>>

\* lines 110-132: the summary
Summarise ==
    /\ batch.pc = "loop"
    /\ batch.i > Len(batch.portfolios)
    /\ BatchReturns(BatchResult(Len(batch.portfolios), batch.success_count,
                                batch.failed_count, batch.failed_ids), "no")
    /\ UNCHANGED <<collection, batch_log>>
    /\ UNCHANGED <<resultVars, retryVars, itemVars, searchVars>>

BatchNext == Select \/ ProcessNext \/ Summarise

(***************************************************************************)
(* search_service.py: SearchService.search_portfolios, one request.        *)
(*                                                                         *)
(* The request goes through query embedding, vector search, reranking and  *)
(* candidate analysis; `search_calls` lists the collaborators it called,   *)
(* in order.  A candidate is [userId, has_text]: has_text says whether its *)
(* embeddings.searchableText is non-empty.  searchTime is not modelled.    *)
(***************************************************************************)
MaxCandidates == 2   \* documents vector_search returns

\* settings.VECTOR_SEARCH_LIMIT, settings.RERANK_TOP_K
VECTOR_SEARCH_LIMIT == 50
RERANK_TOP_K == 10

\* the queries of a request: empty, blank, a word, a word between blanks
Queries == {<<>>, <<32, 32>>, <<113>>, <<32, 113, 32>>}

\* EmbeddingService.embed_query
embed_query(text, encode) ==
    IF ~truthy(text) \/ ~truthy(strip(text))
    THEN Err(ErrorType("InvalidDataError", "ValueError: Text cannot be empty",
                       [given |-> TRUE, keys |-> {"text_length"}]))
    ELSE IF encode = "ok"
    THEN Ok(vector_of(strip(text)))
    ELSE Err(ErrorType("SystemError", encode,
                       [given |-> TRUE, keys |-> {"text_length"}]))

Candidate(user_id, has_text) == [userId |-> user_id, has_text |-> has_text]

\* what vector_search can return: up to `limit` documents, in score order
CandidateLists ==
    UNION {[1..n -> {Candidate(u, t) : u \in 1..MaxCandidates, t \in BOOLEAN}]
           : n \in 0..MaxCandidates}
VectorResults ==
    {results \in CandidateLists :
        /\ Len(results) <= VECTOR_SEARCH_LIMIT
        /\ \A k \in 1..Len(results) : results[k].userId = k}

Take(seq, n) == SubSeq(seq, 1, IF Len(seq) < n THEN Len(seq) ELSE n)

\* CrossEncoder scores, as levels: 0 is below RERANKER_SCORE_THRESHOLD,
\* 1 and 2 are at or above it
ScoreLevels == 0..2
WithLevel(candidates, scores, level) ==
    SelectSeq([k \in 1..Len(candidates) |->
                  [candidate |-> candidates[k], score |-> scores[k]]],
              LAMBDA c : c.score = level)

\* RerankerClient.rerank: filter by threshold, sort by score (descending,
\* stable), keep top_k; on an exception the first top_k, unfiltered
rerank(candidates, scores, predict, top_k) ==
    IF Len(candidates) = 0 THEN <<>>
    ELSE IF predict # "ok" THEN Take(candidates, top_k)
    ELSE LET sorted == WithLevel(candidates, scores, 2)
                       \o WithLevel(candidates, scores, 1)
         IN  Take([k \in 1..Len(sorted) |-> sorted[k].candidate], top_k)

SearchResponse(status, candidates, totalResults) ==
    [status |-> status, candidates |-> candidates, totalResults |-> totalResults]

WithQuery == [given |-> TRUE, keys |-> {"query"}]

\* an embedding failure re-wrapped by the search service
search_embedding_failed_Rewrapped(embedding_result) ==
    Err(ErrorType("SystemError", embedding_result.error_type.error, WithQuery))
\* lines 57-59: return embedding_result
search_embedding_failed(embedding_result) == embedding_result

\* a vector-search exception left to the outer except of line 106
vector_search_failed_System(e) == Err(ErrorType("SystemError", e, WithQuery))
\* lines 67-69
vector_search_failed(e) == Err(ErrorType("NetworkError", e, WithQuery))

\* an empty vector-search result reported as a failed response
no_search_results_Failed == Ok(SearchResponse("failed", <<>>, 0))
\* lines 73-76
no_search_results == Ok(SearchResponse("success", <<>>, 0))

\* an empty reranking reported as a failure
no_reranked_results_Failed ==
    Err(ErrorType("InvalidDataError", "no candidates", WithQuery))
\* lines 84-88
no_reranked_results == Ok(SearchResponse("success", <<>>, 0))

(***************************************************************************)
(* search_service.py: the candidate analysis fan-out of one request.       *)
(*                                                                         *)
(* _analyze_candidates cuts the reranked candidates into chunks of         *)
(* ANALYSIS_BATCH_SIZE and awaits them one after the other; a chunk is one *)
(* asyncio.gather over one task per candidate.  A task enters              *)
(* `async with self._semaphore`, then calls the analysis up to             *)
(* RATE_LIMIT_MAX_RETRIES times.  `tasks[k]` is the task of the k-th       *)
(* reranked candidate, `semaphore` the semaphore's value, `analysis_event` *)
(* the most recent completion of an analysis call.  matchScore is counted  *)
(* in tenths.                                                              *)
(***************************************************************************)
MaxConcurrent == 2         \* largest MAX_CONCURRENT_ANALYSIS drawn
MaxBatchSize == 2          \* largest ANALYSIS_BATCH_SIZE drawn
MaxRateLimitRetries == 2   \* largest RATE_LIMIT_MAX_RETRIES drawn

\* the settings the fan-out reads (search_service.py lines 43, 125, 232,
\* 258, 259)
Settings ==
    [MAX_CONCURRENT_ANALYSIS : 1..MaxConcurrent,
     ANALYSIS_BATCH_SIZE : 1..MaxBatchSize,
     RATE_LIMIT_MAX_RETRIES : 1..MaxRateLimitRetries,
     RATE_LIMIT_INITIAL_DELAY : {1},
     RATE_LIMIT_BACKOFF_MULTIPLIER : {2}]

\* what the chat completion of one analysis call comes to: a JSON reply,
\* with or without a matchScore, or an exception
Reply(kind, has_score, matchScore) ==
    [kind |-> kind, has_score |-> has_score, matchScore |-> matchScore]
MatchScores == {-5, 0, 10, 15}
Replies ==
    {Reply("json", TRUE, s) : s \in MatchScores}
    \cup {Reply("json", FALSE, 0)}
    \cup {Reply(e, FALSE, 0) : e \in {"OpenAIRateLimitError",
                                      "OpenAIAuthenticationError",
                                      "ValueError", "OpenAIError"}}

\* an out-of-range matchScore clamped into the range
analyze_candidate_match_Clamped(reply) ==
    IF reply.kind = "json"
    THEN Ok([reply EXCEPT !.has_score = TRUE,
                          !.matchScore = IF ~reply.has_score \/ reply.matchScore < 0
                                         THEN 0
                                         ELSE IF reply.matchScore > 10 THEN 10
                                         ELSE reply.matchScore])
    ELSE Err(ErrorType("NetworkError", reply.kind, WithQuery))
\* AnalysisService.analyze_candidate_match
analyze_candidate_match(reply) ==
    IF reply.kind = "json"
    THEN LET match_score == IF reply.has_score THEN reply.matchScore ELSE -10
         IN  IF ~(0 <= match_score /\ match_score <= 10)
             THEN Err(ErrorType("InvalidDataError", "ValueError: Invalid matchScore",
                                [given |-> TRUE, keys |-> {"query", "matchScore"}]))
             ELSE Ok(reply)
    ELSE IF reply.kind = "OpenAIRateLimitError"
    THEN Err(ErrorType("RateLimitError", reply.kind,
                       [given |-> TRUE, keys |-> {"query", "model"}]))
    ELSE IF reply.kind = "OpenAIAuthenticationError"
    THEN Err(ErrorType("AuthenticationError", reply.kind,
                       [given |-> TRUE, keys |-> {"api_key_prefix"}]))
    ELSE IF reply.kind = "ValueError"
    THEN Err(ErrorType("InvalidDataError", reply.kind, WithQuery))
    ELSE Err(ErrorType("NetworkError", reply.kind, WithQuery))

\* AnalysisService.analyze_candidate_match_async: the same analysis, awaited
analyze_candidate_match_async(reply) == analyze_candidate_match(reply)

\* what `await asyncio.wait_for(...)` of line 234 comes to: the call's
\* reply, the deadline, or an exception out of the call
AnalysisEvents ==
    Replies \cup {Reply("asyncio.TimeoutError", FALSE, 0),
                  Reply("RuntimeError", FALSE, 0)}
NoEvent == Reply("none", FALSE, 0)

\* schemas/response.py: CandidateResult, matchScore: Field(ge=0.0, le=1.0)
CandidateResult(userId, matchScore) == [userId |-> userId, matchScore |-> matchScore]
CandidateResult_validates(matchScore) == 0 <= matchScore /\ matchScore <= 10

\* how one pass of the retry loop ends: the task returns a value, or sleeps
\* and goes round again
Return(value) == [next |-> "return", value |-> value, wait_time |-> 0]
Sleep(seconds) == [next |-> "sleep", value |-> None, wait_time |-> seconds]

\* the generic executor's doubling instead of the configured multiplier
rate_limit_wait_time_Doubling(cfg, attempt) ==
    cfg.RATE_LIMIT_INITIAL_DELAY * Pow(2, attempt)
\* lines 259-260
rate_limit_wait_time(cfg, attempt) ==
    cfg.RATE_LIMIT_INITIAL_DELAY * Pow(cfg.RATE_LIMIT_BACKOFF_MULTIPLIER, attempt)

\* every retryable failure retried
should_retry_AnyRetryable(cfg, attempt, analysis_result) ==
    /\ IsErr(analysis_result)
    /\ is_retryable(analysis_result.error_type)
    /\ attempt < cfg.RATE_LIMIT_MAX_RETRIES - 1
\* line 258: case Err(error_type=RateLimitError()) if attempt < MAX - 1
should_retry(cfg, attempt, analysis_result) ==
    /\ IsErr(analysis_result)
    /\ analysis_result.error_type.cls = "RateLimitError"
    /\ attempt < cfg.RATE_LIMIT_MAX_RETRIES - 1

\* a deadline answered by another round of the loop
on_timeout_Retried(cfg, attempt) ==
    IF attempt < cfg.RATE_LIMIT_MAX_RETRIES - 1 THEN Sleep(0) ELSE Return(None)
\* lines 282-287: except asyncio.TimeoutError
on_timeout(cfg, attempt) == Return(None)

\* lines 242-256: case Ok(analysis)
on_analysis(user_id, analysis) ==
    LET matchScore == IF analysis.has_score THEN analysis.matchScore ELSE 0
    IN  IF CandidateResult_validates(matchScore)
        THEN Return(CandidateResult(user_id, matchScore))
        ELSE Return(None)

\* lines 233-294: one pass of the loop, from the awaited call on
analysis_pass(cfg, user_id, attempt, event) ==
    IF event.kind = "asyncio.TimeoutError" THEN on_timeout(cfg, attempt)
    ELSE IF event.kind = "RuntimeError" THEN Return(None)
    ELSE LET analysis_result == analyze_candidate_match_async(event)
         IN  IF IsOk(analysis_result)
             THEN on_analysis(user_id, analysis_result.value)
             ELSE IF should_retry(cfg, attempt, analysis_result)
             THEN Sleep(rate_limit_wait_time(cfg, attempt))
             ELSE Return(None)

Task(state, attempt, calls, slept, result) ==
    [state |-> state, attempt |-> attempt, calls |-> calls, slept |-> slept,
     result |-> result]
NewTask == Task("NotStarted", 0, 0, <<>>, None)
Terminal(task) == task.state \in {"Succeeded", "Discarded"}

\* asyncio.Semaphore: acquire goes on while the value is positive
may_acquire_Always(value) == TRUE
may_acquire(value) == value > 0
\* the semaphore left as it is when a task leaves `async with`
release_Leaked(value) == value
release(value) == value + 1

\* the chunk's results kept in the reverse of the task order
valid_candidates_Reversed(batch_results) ==
    LET kept == SelectSeq(batch_results, LAMBDA r : r # None)
    IN  [i \in 1..Len(kept) |-> kept[Len(kept) + 1 - i]]
\* lines 181-196: gather's results in task order, None and exceptions dropped
valid_candidates(batch_results) == SelectSeq(batch_results, LAMBDA r : r # None)

\* a search that found no match reported as a failure
search_succeeded_FailsWhenEmpty(final_candidates) ==
    IF Len(final_candidates) = 0
    THEN Err(ErrorType("SystemError", "no match", WithQuery))
    ELSE Ok(SearchResponse("success", final_candidates, Len(final_candidates)))
\* lines 93-104
search_succeeded(final_candidates) ==
    Ok(SearchResponse("success", final_candidates, Len(final_candidates)))

NoCompletion == [task |-> 0, attempt |-> 0, event |-> NoEvent, result |-> None]

SearchIdle ==
    [pc |-> "idle", query |-> <<>>, encode |-> "ok", vector |-> "ok",
     embedding_result |-> None, search_results |-> <<>>, reranked_results |-> <<>>,
     batch_idx |-> 0, batch_end |-> 0, all_valid_candidates |-> <<>>]

\* SearchService.__init__, line 43: the semaphore starts at the configured value
\* the requests of a process that has received none yet
MaxRequests == 2
RequestIds == 1..MaxRequests
Request(state, value, pending, running) ==
    [state |-> state, semaphore |-> value, pending |-> pending, running |-> running]
NoRequests == [r \in RequestIds |-> Request("absent", 0, 0, 0)]

SearchStarts(cfg) ==
    /\ search = SearchIdle
    /\ search_calls = <<>>
    /\ search_return = None
    /\ settings = cfg
    /\ semaphore = cfg.MAX_CONCURRENT_ANALYSIS
    /\ tasks = <<>>
    /\ analysis_event = NoCompletion
    /\ http_response = None
    /\ requests = NoRequests

SearchInit == \E cfg \in Settings : SearchStarts(cfg)

\* the search service of a run that serves no search
OneByOne ==
    [MAX_CONCURRENT_ANALYSIS |-> 1, ANALYSIS_BATCH_SIZE |-> 1,
     RATE_LIMIT_MAX_RETRIES |-> 1, RATE_LIMIT_INITIAL_DELAY |-> 1,
     RATE_LIMIT_BACKOFF_MULTIPLIER |-> 2]
SearchUnused == SearchStarts(OneByOne)

SearchReturns(result) ==
    /\ search_return' = result

fanoutVars == <<settings, semaphore, tasks, analysis_event>>

\* lines 53-60: the request arrives and its query is embedded
EmbedQuery ==
    /\ search.pc = "idle"
    /\ \E query \in Queries, encode \in EncodeOutcomes :
          LET embedding_result == embed_query(query, encode)
              s == [search EXCEPT !.query = query, !.encode = encode,
                                  !.embedding_result = embedding_result]
          IN  IF IsErr(embedding_result)
              THEN /\ search' = [s EXCEPT !.pc = "done"]
                   /\ SearchReturns(search_embedding_failed(embedding_result))
              ELSE /\ search' = [s EXCEPT !.pc = "vector_search"]
                   /\ UNCHANGED search_return
    /\ search_calls' = Append(search_calls, "embed_query")
    /\ UNCHANGED <<fanoutVars, http_response, requests>>
    /\ UNCHANGED <<resultVars, retryVars, itemVars, batchVars>>

\* lines 62-76: await vector_search, which raises what motor raises
VectorSearch ==
    /\ search.pc = "vector_search"
    /\ \/ /\ search' = [search EXCEPT !.pc = "done", !.vector = "PyMongoError"]
          /\ SearchReturns(vector_search_failed("PyMongoError"))
       \/ \E results \in VectorResults :
             IF Len(results) = 0
             THEN /\ search' = [search EXCEPT !.pc = "done", !.search_results = results]
                  /\ SearchReturns(no_search_results)
             ELSE /\ search' = [search EXCEPT !.pc = "rerank", !.search_results = results]
                  /\ UNCHANGED search_return
    /\ search_calls' = Append(search_calls, "vector_search")
    /\ UNCHANGED <<fanoutVars, http_response, requests>>
    /\ UNCHANGED <<resultVars, retryVars, itemVars, batchVars>>

\* lines 78-88, 122-133: rerank; _analyze_candidates starts with no result
Rerank ==
    /\ search.pc = "rerank"
    /\ \E predict \in {"ok", "Exception"},
          scores \in [1..Len(search.search_results) -> ScoreLevels] :
          LET reranked_results == rerank(search.search_results, scores,
                                         predict, RERANK_TOP_K)
          IN  IF Len(reranked_results) = 0
              THEN /\ search' = [search EXCEPT !.pc = "done"]
                   /\ SearchReturns(no_reranked_results)
                   /\ UNCHANGED tasks
              ELSE /\ search' = [search EXCEPT !.pc = "analyze",
                                    !.reranked_results = reranked_results]
                   /\ tasks' = [k \in 1..Len(reranked_results) |-> NewTask]
                   /\ UNCHANGED search_return
    /\ search_calls' = Append(search_calls, "rerank")
    /\ UNCHANGED <<settings, semaphore, analysis_event, http_response, requests>>
    /\ UNCHANGED <<resultVars, retryVars, itemVars, batchVars>>

\* lines 135-148, 172-181: the next chunk; gather schedules one task per
\* candidate of the chunk
AnalyzeBatch ==
    /\ search.pc = "analyze"
    /\ search.batch_end = 0
    /\ LET total_candidates == Len(search.reranked_results)
           upto == search.batch_idx + settings.ANALYSIS_BATCH_SIZE
           batch_end == IF upto < total_candidates THEN upto ELSE total_candidates
       IN  /\ search' = [search EXCEPT !.batch_end = batch_end]
           /\ tasks' = [k \in DOMAIN tasks |->
                           IF search.batch_idx < k /\ k <= batch_end
                           THEN [tasks[k] EXCEPT !.state = "Pending"]
                           ELSE tasks[k]]
    /\ UNCHANGED <<settings, semaphore, analysis_event, http_response, requests>>
    /\ UNCHANGED <<search_calls, search_return>>
    /\ UNCHANGED <<resultVars, retryVars, itemVars, batchVars>>

\* lines 209-240: a task enters `async with self._semaphore` and runs to
\* its first await; a candidate without text returns None at once
Acquire(k) ==
    /\ search.pc = "analyze"
    /\ tasks[k].state = "Pending"
    /\ may_acquire(semaphore)
    /\ IF ~search.reranked_results[k].has_text \/ settings.RATE_LIMIT_MAX_RETRIES = 0
       THEN /\ tasks' = [tasks EXCEPT ![k].state = "Discarded"]
            /\ semaphore' = release(semaphore - 1)
       ELSE /\ tasks' = [tasks EXCEPT ![k].state = "Running", ![k].calls = 1]
            /\ semaphore' = semaphore - 1
    /\ UNCHANGED <<settings, analysis_event, http_response, requests>>
    /\ UNCHANGED <<search, search_calls, search_return>>
    /\ UNCHANGED <<resultVars, retryVars, itemVars, batchVars>>

\* lines 234-296, 209-214: the awaited call completes; the task returns,
\* leaving `async with`, or starts its back-off sleep inside it
Complete(k) ==
    /\ search.pc = "analyze"
    /\ tasks[k].state = "Running"
    /\ \E event \in AnalysisEvents :
          LET pass == analysis_pass(settings, search.reranked_results[k].userId,
                                    tasks[k].attempt, event)
          IN  /\ analysis_event' = [task |-> k, attempt |-> tasks[k].attempt,
                                    event |-> event, result |-> pass.value]
              /\ IF pass.next = "sleep"
                 THEN /\ tasks' = [tasks EXCEPT
                              ![k].state = "Sleeping",
                              ![k].slept = Append(tasks[k].slept, pass.wait_time)]
                      /\ UNCHANGED semaphore
                 ELSE /\ tasks' = [tasks EXCEPT
                              ![k].state = IF pass.value = None THEN "Discarded"
                                           ELSE "Succeeded",
                              ![k].result = pass.value]
                      /\ semaphore' = release(semaphore)
    /\ UNCHANGED <<settings, http_response, requests>>
    /\ UNCHANGED <<search, search_calls, search_return>>
    /\ UNCHANGED <<resultVars, retryVars, itemVars, batchVars>>

\* lines 265-266, 232-240: the sleep ends and the loop calls again
Wake(k) ==
    /\ search.pc = "analyze"
    /\ tasks[k].state = "Sleeping"
    /\ tasks' = [tasks EXCEPT ![k].state = "Running",
                              ![k].attempt = tasks[k].attempt + 1,
                              ![k].calls = tasks[k].calls + 1]
    /\ UNCHANGED <<settings, semaphore, analysis_event, http_response, requests>>
    /\ UNCHANGED <<search, search_calls, search_return>>
    /\ UNCHANGED <<resultVars, retryVars, itemVars, batchVars>>

\* lines 181-198, 150-161, 91-104: gather returns once every task of the
\* chunk has; after the last chunk the search returns
GatherBatch ==
    /\ search.pc = "analyze"
    /\ search.batch_end > 0
    /\ \A k \in (search.batch_idx + 1)..search.batch_end : Terminal(tasks[k])
    /\ LET batch_results == [i \in 1..(search.batch_end - search.batch_idx) |->
                                tasks[search.batch_idx + i].result]
           all_valid_candidates == search.all_valid_candidates
                                   \o valid_candidates(batch_results)
           s == [search EXCEPT !.all_valid_candidates = all_valid_candidates,
                               !.batch_idx = search.batch_end,
                               !.batch_end = 0]
       IN  IF search.batch_end < Len(search.reranked_results)
           THEN /\ search' = s
                /\ UNCHANGED search_return
           ELSE /\ search' = [s EXCEPT !.pc = "done"]
                /\ SearchReturns(search_succeeded(all_valid_candidates))
    /\ UNCHANGED <<fanoutVars, http_response, requests>>
    /\ UNCHANGED search_calls
    /\ UNCHANGED <<resultVars, retryVars, itemVars, batchVars>>

(***************************************************************************)
(* api/routers/search.py: the POST /ai/search handler around the search.   *)
(* `detail` is the message and the number of seconds formatted into it.    *)
(***************************************************************************)
HTTPResponse(status_code, body, text, seconds, headers) ==
    [status_code |-> status_code, body |-> body,
     detail |-> [text |-> text, seconds |-> seconds], headers |-> headers]

\* an invalid request answered like any other permanent failure
search_router_No400(result) ==
    IF IsOk(result) THEN HTTPResponse(200, result.value, "", 0, {})
    ELSE IF Err_is_retryable(result)
    THEN HTTPResponse(503, None,
             "Service temporarily unavailable. Please retry after {} seconds.",
             Err_retry_delay(result), {<<"Retry-After", Err_retry_delay(result)>>})
    ELSE HTTPResponse(500, None, "Search failed. Please try again later.", 0, {})
\* lines 79-112: the match over the search's Result
search_router(result) ==
    IF IsOk(result) THEN HTTPResponse(200, result.value, "", 0, {})
    ELSE IF result.error_type.cls = "InvalidDataError"
    THEN HTTPResponse(400, None, error_message(result.error_type), 0, {})
    ELSE IF Err_is_retryable(result)
    THEN HTTPResponse(503, None,
             "Service temporarily unavailable. Please retry after {} seconds.",
             Err_retry_delay(result), {<<"Retry-After", Err_retry_delay(result)>>})
    ELSE HTTPResponse(500, None, "Search failed. Please try again later.", 0, {})

\* lines 77-112: the search has returned and the handler answers
Respond ==
    /\ search.pc = "done"
    /\ http_response = None
    /\ http_response' = search_router(search_return)
    /\ UNCHANGED <<search, search_calls, search_return, fanoutVars, requests>>
    /\ UNCHANGED <<resultVars, retryVars, itemVars, batchVars>>

\* the Results a search can hand to the handler: every failure kind, and
\* responses with and without candidates
BoundaryResults ==
    {Err(t) : t \in ErrorTypes}
    \cup {Ok(SearchResponse("success", <<>>, 0)),
          Ok(SearchResponse("success", <<CandidateResult(1, 10)>>, 1))}

BoundaryInit ==
    /\ search = [SearchIdle EXCEPT !.pc = "done"]
    /\ search_calls = <<>>
    /\ search_return \in BoundaryResults
    /\ settings = OneByOne
    /\ semaphore = settings.MAX_CONCURRENT_ANALYSIS
    /\ tasks = <<>>
    /\ analysis_event = NoCompletion
    /\ http_response = None
    /\ requests = NoRequests

\* lines 53-90: a search whose query was embedded, whose vector search found
\* candidates and whose reranker kept them all, in their order
FanoutInit ==
    /\ \E results \in VectorResults :
          /\ Len(results) > 0
          /\ search = [SearchIdle EXCEPT
                           !.pc = "analyze", !.query = <<113>>,
                           !.embedding_result = embed_query(<<113>>, "ok"),
                           !.search_results = results,
                           !.reranked_results =
                               rerank(results, [k \in 1..Len(results) |-> 2],
                                      "ok", RERANK_TOP_K)]
          /\ tasks = [k \in 1..Len(results) |-> NewTask]
    /\ search_calls = <<"embed_query", "vector_search", "rerank">>
    /\ search_return = None
    /\ settings \in Settings
    /\ semaphore = settings.MAX_CONCURRENT_ANALYSIS
    /\ analysis_event = NoCompletion
    /\ http_response = None
    /\ requests = NoRequests

\* dependencies.py lines 120-144 with search_service.py line 43: the
\* SearchService of a request is built for it, with a semaphore of its own;
\* the request analyses `candidates` candidates
get_search_service(cfg, candidates) ==
    Request("serving", cfg.MAX_CONCURRENT_ANALYSIS, candidates, 0)

\* routers/search.py lines 77-79: a request arrives while others are served
NewRequest(r) ==
    /\ requests[r].state = "absent"
    /\ \E candidates \in 1..MaxCandidates :
          requests' = [requests EXCEPT ![r] = get_search_service(settings, candidates)]
    /\ UNCHANGED <<search, search_calls, search_return, fanoutVars, http_response>>
    /\ UNCHANGED <<resultVars, retryVars, itemVars, batchVars>>

\* search_service.py lines 209-214: a task of request r enters
\* `async with self._semaphore` and its analysis call starts
RequestAcquire(r) ==
    /\ requests[r].state = "serving"
    /\ requests[r].pending > 0
    /\ may_acquire(requests[r].semaphore)
    /\ requests' = [requests EXCEPT ![r].semaphore = @ - 1,
                                    ![r].pending = @ - 1,
                                    ![r].running = @ + 1]
    /\ UNCHANGED <<search, search_calls, search_return, fanoutVars, http_response>>
    /\ UNCHANGED <<resultVars, retryVars, itemVars, batchVars>>

\* search_service.py lines 209-214: the task returns and leaves `async with`
RequestRelease(r) ==
    /\ requests[r].running > 0
    /\ requests' = [requests EXCEPT ![r].semaphore = release(@),
                                    ![r].running = @ - 1]
    /\ UNCHANGED <<search, search_calls, search_return, fanoutVars, http_response>>
    /\ UNCHANGED <<resultVars, retryVars, itemVars, batchVars>>

AdmissionInit == \E cfg \in Settings : SearchStarts(cfg)
AdmissionNext ==
    \E r \in RequestIds : NewRequest(r) \/ RequestAcquire(r) \/ RequestRelease(r)

\* the rate-limit settings over a range of bases and multipliers, for one
\* candidate analysed alone
MaxBackoffRetries == 3
MaxBackoffDelay == 3
MaxBackoffMultiplier == 3
BackoffSettings ==
    [MAX_CONCURRENT_ANALYSIS : {1}, ANALYSIS_BATCH_SIZE : {1},
     RATE_LIMIT_MAX_RETRIES : 1..MaxBackoffRetries,
     RATE_LIMIT_INITIAL_DELAY : 1..MaxBackoffDelay,
     RATE_LIMIT_BACKOFF_MULTIPLIER : 1..MaxBackoffMultiplier]

\* search_portfolios at its fan-out over one reranked candidate with text
BackoffInit ==
    /\ search = [SearchIdle EXCEPT
                     !.pc = "analyze", !.query = <<113>>,
                     !.embedding_result = embed_query(<<113>>, "ok"),
                     !.search_results = <<Candidate(1, TRUE)>>,
                     !.reranked_results =
                         rerank(<<Candidate(1, TRUE)>>, <<2>>, "ok", RERANK_TOP_K)]
    /\ tasks = <<NewTask>>
    /\ search_calls = <<"embed_query", "vector_search", "rerank">>
    /\ search_return = None
    /\ settings \in BackoffSettings
    /\ semaphore = settings.MAX_CONCURRENT_ANALYSIS
    /\ analysis_event = NoCompletion
    /\ http_response = None
    /\ requests = NoRequests

AnalysisNext ==
    \/ AnalyzeBatch
    \/ \E k \in DOMAIN tasks : Acquire(k) \/ Complete(k) \/ Wake(k)
    \/ GatherBatch

SearchNext == EmbedQuery \/ VectorSearch \/ Rerank \/ AnalysisNext \/ Respond

(***************************************************************************)
(* Specifications: one per component.                                      *)
(***************************************************************************)
RetryIdle ==
    /\ rx_max_retries = 0 /\ rx_initial_delay = 1 /\ rx_task = <<>>
    /\ rx_pc = "idle" /\ rx_attempt = 0 /\ rx_last_error_result = None
    /\ rx_return = None /\ rx_trace = <<>>

InitResult == ResultInit /\ RetryIdle /\ ItemIdle /\ BatchUnused /\ SearchUnused
SpecResult == InitResult /\ [][ResultNext]_vars

InitRetry == RetryInit /\ ResultInit /\ ItemIdle /\ BatchUnused /\ SearchUnused
SpecRetry == InitRetry /\ [][RetryNext]_vars

InitItem == ItemInit /\ ResultInit /\ RetryIdle /\ BatchUnused /\ SearchUnused
SpecItem == InitItem /\ [][ItemNext]_vars

InitRerun == RerunInit /\ ResultInit /\ RetryIdle /\ BatchUnused /\ SearchUnused
SpecRerun == InitRerun /\ [][ItemNext]_vars

InitBatch == BatchInit /\ ResultInit /\ RetryIdle /\ ItemIdle /\ SearchUnused
SpecBatch == InitBatch /\ [][BatchNext]_vars

InitSearch == SearchInit /\ ResultInit /\ RetryIdle /\ ItemIdle /\ BatchUnused
SpecSearch == InitSearch /\ [][SearchNext]_vars

\* the fan-out on its own, from the state in which _analyze_candidates is
\* entered; the event loop runs every task that can run, and sleeps and
\* deadlines end
InitFanout == FanoutInit /\ ResultInit /\ RetryIdle /\ ItemIdle /\ BatchUnused
SpecFanout == InitFanout /\ [][AnalysisNext]_vars /\ WF_vars(AnalysisNext)

InitReprocess == ReprocessInit /\ ResultInit /\ RetryIdle /\ BatchUnused /\ SearchUnused
SpecReprocess == InitReprocess /\ [][ItemNext]_vars

InitAdmission == AdmissionInit /\ ResultInit /\ RetryIdle /\ ItemIdle /\ BatchUnused
SpecAdmission == InitAdmission /\ [][AdmissionNext]_vars

InitBackoff == BackoffInit /\ ResultInit /\ RetryIdle /\ ItemIdle /\ BatchUnused
SpecBackoff == InitBackoff /\ [][AnalysisNext]_vars

InitBoundary == BoundaryInit /\ ResultInit /\ RetryIdle /\ ItemIdle /\ BatchUnused
SpecBoundary == InitBoundary /\ [][Respond]_vars

(***************************************************************************)
(* Claims about result.py                                                  *)
(***************************************************************************)
\* the fixed table of the data model: kind -> (retryable, delay in seconds)
KindTable ==
    [NetworkError        |-> [retryable |-> TRUE,  delay |-> 1],
     RateLimitError      |-> [retryable |-> TRUE,  delay |-> 60],
     TimeoutError        |-> [retryable |-> TRUE,  delay |-> 5],
     InvalidDataError    |-> [retryable |-> FALSE, delay |-> 0],
     AuthenticationError |-> [retryable |-> FALSE, delay |-> 0],
     ConfigurationError  |-> [retryable |-> FALSE, delay |-> 0],
     SystemError         |-> [retryable |-> FALSE, delay |-> 0]]

\* C1: whatever Err was constructed, with whatever cause and context, the
\* is_retryable and retry_delay read through it are the fixed table's values
\* for its kind; two instances of one kind therefore always agree.
C1_RetryPolicyIsTheFixedTable ==
    /\ IsErr(res) =>
          /\ resRetryable = KindTable[res.error_type.cls].retryable
          /\ resDelay = KindTable[res.error_type.cls].delay
    /\ (IsErr(res) /\ IsErr(prevRes) /\ res.error_type.cls = prevRes.error_type.cls) =>
          /\ resRetryable = prevRetryable
          /\ resDelay = prevDelay

\* C1 witness: two RateLimitError instances with different causes and
\* contexts were constructed and read one after the other.
C1_Witness ==
    /\ IsErr(res) /\ IsErr(prevRes)
    /\ res.error_type.cls = "RateLimitError"
    /\ prevRes.error_type.cls = "RateLimitError"
    /\ res.error_type.error # prevRes.error_type.error
    /\ res.error_type.context = {"text_length"}
    /\ prevRes.error_type.context = {}
    /\ resRetryable /\ resDelay = 60

(***************************************************************************)
(* Claims about RetryExecutor.run                                          *)
(***************************************************************************)
RetryableKinds == {"NetworkError", "RateLimitError", "TimeoutError"}
NonRetryableKinds == ErrorClasses \ RetryableKinds

\* the first n invocations of the task all return a retryable Failure
FailsRetryably(n) == \A i \in 1..n : rx_task[i] \in RetryableKinds

TaskCalls(trace) == Len(SelectSeq(trace, LAMBDA e : e.ev = "task"))
Sleeps(trace) == SelectSeq(trace, LAMBDA e : e.ev = "sleep")

\* invocations 0..k of the task with a sleep of initial_delay * 2^i between
\* invocation i and invocation i+1
BackoffTrace(k) ==
    [n \in 1..(2 * k + 1) |->
        IF n % 2 = 1 THEN TaskEvent((n - 1) \div 2)
        ELSE SleepEvent(rx_initial_delay * Pow(2, (n \div 2) - 1))]

\* C2: a task that fails retryably exactly k < max_retries times and then
\* succeeds: run returns that Success after k+1 invocations and k sleeps of
\* initial_delay * 2^i, each between invocation i and invocation i+1.
C2_RetriesThenSuccess ==
    rx_pc = "done" =>
        \A k \in 0..(rx_max_retries - 1) :
            (FailsRetryably(k) /\ rx_task[k + 1] = "Ok") =>
                /\ rx_return = Ok(k)
                /\ TaskCalls(rx_trace) = k + 1
                /\ Len(Sleeps(rx_trace)) = k
                /\ rx_trace = BackoffTrace(k)

\* C2 witness: two retryable failures, then success, with initial_delay 2.
C2_Witness ==
    /\ rx_pc = "done"
    /\ rx_max_retries = 3 /\ rx_initial_delay = 2
    /\ rx_task = <<"TimeoutError", "RateLimitError", "Ok">>
    /\ rx_return = Ok(2)
    /\ Sleeps(rx_trace) = <<SleepEvent(2), SleepEvent(4)>>

\* C3: the first non-retryable Failure the task returns is what run
\* returns, right after that invocation: no sleep and no invocation follow.
C3_NonRetryableReturnsAtOnce ==
    rx_pc = "done" =>
        \A j \in 0..(rx_max_retries - 1) :
            (FailsRetryably(j) /\ rx_task[j + 1] \in NonRetryableKinds) =>
                /\ rx_return = Err(ErrorType(rx_task[j + 1], j, NoContext))
                /\ TaskCalls(rx_trace) = j + 1
                /\ rx_trace[Len(rx_trace)] = TaskEvent(j)

\* C3 witness: a task that always fails non-retryably, three attempts
\* allowed, was invoked once.
C3_Witness ==
    /\ rx_pc = "done"
    /\ rx_max_retries = 3
    /\ \A i \in 1..3 : rx_task[i] = "AuthenticationError"
    /\ rx_trace = <<TaskEvent(0)>>
    /\ IsErr(rx_return) /\ rx_return.error_type.cls = "AuthenticationError"

\* C4: a task that always fails retryably, max_retries >= 1: max_retries
\* invocations, max_retries - 1 sleeps, none after the last invocation, and
\* the last invocation's Failure is returned as it is.
C4_RetriesExhausted ==
    (rx_pc = "done" /\ rx_max_retries >= 1 /\ FailsRetryably(rx_max_retries)) =>
        /\ TaskCalls(rx_trace) = rx_max_retries
        /\ Len(Sleeps(rx_trace)) = rx_max_retries - 1
        /\ rx_trace[Len(rx_trace)] = TaskEvent(rx_max_retries - 1)
        /\ rx_return = Err(ErrorType(rx_task[rx_max_retries],
                                     rx_max_retries - 1, NoContext))

\* C4 witness: three retryable failures of different kinds with three
\* attempts allowed; the third one came back.
C4_Witness ==
    /\ rx_pc = "done"
    /\ rx_max_retries = 3
    /\ rx_task = <<"NetworkError", "RateLimitError", "TimeoutError">>
    /\ TaskCalls(rx_trace) = 3
    /\ IsErr(rx_return) /\ rx_return.error_type.cls = "TimeoutError"
    /\ rx_return.error_type.error = 2

\* C5: when an invocation of the task raises, run returns a SystemError
\* Failure wrapping that exception; nothing is slept and the task is not
\* invoked again, even when attempts remain.
C5_RaisedExceptionIsTerminal ==
    rx_pc = "done" =>
        \A j \in 0..(rx_max_retries - 1) :
            (FailsRetryably(j) /\ rx_task[j + 1] = "Raise") =>
                /\ IsErr(rx_return)
                /\ rx_return.error_type.cls = "SystemError"
                /\ rx_return.error_type.error = j
                /\ ~Err_is_retryable(rx_return)
                /\ TaskCalls(rx_trace) = j + 1
                /\ rx_trace[Len(rx_trace)] = TaskEvent(j)

\* C5 witness: the second of three allowed attempts raised.
C5_Witness ==
    /\ rx_pc = "done"
    /\ rx_max_retries = 3
    /\ rx_task[1] = "NetworkError" /\ rx_task[2] = "Raise"
    /\ TaskCalls(rx_trace) = 2
    /\ IsErr(rx_return) /\ rx_return.error_type.cls = "SystemError"

(***************************************************************************)
(* Item processing                                                         *)
(***************************************************************************)
Ran == inv.impl # "none"
AttachmentAt(portfolio, pos) == portfolio.portfolioItems[pos[1]].attachments[pos[2]]
CalledOn(calls, pos) ==
    \E k \in 1..Len(calls) : calls[k].item = pos[1] /\ calls[k].att = pos[2]
Called(calls, name) == \E k \in 1..Len(calls) : calls[k].call = name
AllCompleted(portfolio) ==
    \A pos \in Positions(portfolio) :
        AttachmentAt(portfolio, pos).extractionStatus = "completed"

\* C6: in every process invocation an attachment whose extractionStatus is
\* already completed is never passed to file_exists, read_file or
\* extract_text and its status stays completed; and processing twice an item
\* whose attachments are all completed and whose fields are unchanged yields
\* the same searchable text both times.
C6_CompletedAttachmentsAreSkipped ==
    Ran =>
        /\ \A pos \in Positions(inv.input) :
              AttachmentAt(inv.input, pos).extractionStatus = "completed" =>
                  /\ ~CalledOn(inv.calls, pos)
                  /\ AttachmentAt(mem, pos).extractionStatus = "completed"
        /\ (/\ prev.impl = inv.impl
            /\ prev.input = inv.input
            /\ AllCompleted(inv.input))
           => prev.searchable_text = inv.searchable_text

\* C7: in PortfolioProcessor._process_attachments, every attachment with a
\* path whose extractionStatus is not completed ends failed if the file is
\* absent or read_file / extract_text raised, and completed if extract_text
\* returned (even with empty text); every such attachment is visited whatever
\* happened to the ones before it, and process goes on to its end.
ExtractionRaises(attachment, file) ==
    \/ file = "unreadable"
    \/ file_extension(attachment.filePath) \notin supported_formats
C7_AttachmentStatusAfterStep ==
    (Ran /\ inv.impl = "PortfolioProcessor") =>
        /\ \A pos \in Positions(inv.input) :
              LET before == AttachmentAt(inv.input, pos)
                  file == inv.files[pos]
              IN  (before.filePath # "" /\ before.extractionStatus # "completed") =>
                      /\ \E k \in 1..Len(inv.calls) :
                            inv.calls[k] = Call("file_exists", pos[1], pos[2])
                      /\ AttachmentAt(mem, pos).extractionStatus =
                            IF file = "absent" \/ ExtractionRaises(before, file)
                            THEN "failed" ELSE "completed"
        /\ Called(inv.calls, "mark_as_processed") \/ Called(inv.calls, "embed_passage")
\* an item whose first attachment has no file behind it and whose second,
\* failed before, is now read and holds no text
C7_Witness ==
    /\ Ran /\ inv.impl = "PortfolioProcessor"
    /\ <<1, 1>> \in Positions(inv.input) /\ <<1, 2>> \in Positions(inv.input)
    /\ AttachmentAt(inv.input, <<1, 1>>) = Attachment("note.hwp", "unset")
    /\ AttachmentAt(inv.input, <<1, 2>>) = Attachment("scan.pdf", "failed")
    /\ inv.files[<<1, 1>>] = "absent" /\ inv.files[<<1, 2>>] = "blank"
    /\ AttachmentAt(mem, <<1, 1>>).extractionStatus = "failed"
    /\ AttachmentAt(mem, <<1, 2>>).extractionStatus = "completed"

\* C8: when the searchable text is empty after trimming, the per-item
\* operation returns Ok(portfolio_id), the stored needsEmbedding of the
\* document becomes false, and embed_passage is never called for it.
C8_NoTextIsSuccessWithoutEmbedding ==
    (Ran /\ ~truthy(inv.searchable_text)) =>
        /\ inv.result = Ok(portfolio_id)
        /\ store.needsEmbedding = FALSE
        /\ ~Called(inv.calls, "embed_passage")

\* C9: when embed_passage returns an Err for a non-empty text, process
\* returns that very Err (the SystemError of the embedding service, with its
\* cause and its context) and writes nothing to the store.
C9_EmbeddingFailurePropagatedUnchanged ==
    (Ran /\ truthy(inv.searchable_text) /\ inv.encode # "ok") =>
        /\ IsErr(inv.result)
        /\ inv.result.error_type.cls = "SystemError"
        /\ inv.result.error_type.error = inv.encode
        /\ inv.result.error_type.context = {"text_length"}
        /\ store = inv.stored_before
        /\ \A k \in 1..Len(inv.calls) :
              inv.calls[k].call \notin
                  {"update_embeddings", "update_embeddings_and_status",
                   "mark_as_processed"}
C9_Witness ==
    /\ Ran /\ inv.impl = "PortfolioProcessor"
    /\ truthy(inv.searchable_text) /\ inv.encode = "MemoryError"
    /\ Called(inv.calls, "embed_passage")
    /\ IsErr(inv.result) /\ inv.result.error_type.error = "MemoryError"
    /\ store.needsEmbedding

\* C10: when embed_passage succeeded and the repository's update returns
\* False, process returns an Err(NetworkError), which is retryable: never an
\* Ok, never an InvalidDataError or an AuthenticationError.
C10_PersistenceFailureIsNetworkFailure ==
    (Ran /\ truthy(inv.searchable_text) /\ inv.encode = "ok" /\ inv.db = "unmodified") =>
        /\ ~IsOk(inv.result)
        /\ IsErr(inv.result)
        /\ inv.result.error_type.cls = "NetworkError"
        /\ inv.result.error_type.cls \notin {"InvalidDataError", "AuthenticationError"}
        /\ Err_is_retryable(inv.result)
C10_Witness ==
    /\ Ran /\ inv.impl = "BatchService"
    /\ truthy(inv.searchable_text) /\ inv.encode = "ok" /\ inv.db = "unmodified"
    /\ Called(inv.calls, "update_embeddings")
    /\ IsErr(inv.result) /\ inv.result.error_type.cls = "NetworkError"
    /\ store = inv.stored_before

\* C11: with a non-empty searchable text, whenever the per-item operation
\* returns Ok the stored document holds, written by one single update, the
\* computed searchable text, its embedding vector, the extractionStatus the
\* attachment step gave every attachment, and needsEmbedding = false.
StatusAfterStep(before, file) ==
    IF before.extractionStatus = "completed" \/ before.filePath = ""
    THEN before.extractionStatus
    ELSE IF file = "absent" \/ ExtractionRaises(before, file)
    THEN "failed" ELSE "completed"
StorageWrites(calls) ==
    {k \in 1..Len(calls) :
        calls[k].call \in {"update_embeddings", "update_embeddings_and_status",
                           "mark_as_processed"}}
C11_SuccessIsOneUpdateOfEverything ==
    (Ran /\ truthy(inv.searchable_text) /\ IsOk(inv.result)) =>
        /\ Cardinality(StorageWrites(inv.calls)) = 1
        /\ store.searchableText = inv.searchable_text
        /\ store.kureVector = vector_of(inv.searchable_text)
        /\ store.needsEmbedding = FALSE
        /\ \A pos \in Positions(inv.input) :
              AttachmentAt(store, pos).extractionStatus =
                  StatusAfterStep(AttachmentAt(inv.input, pos), inv.files[pos])

(***************************************************************************)
(* Batch orchestrator                                                      *)
(***************************************************************************)
BatchDone == batch.pc = "done"
\* the run reached its summary without taking the except branch
BatchCompleted == BatchDone /\ batch_raised = "no"
LogIndexes == 1..Len(batch_log)
SeqRange(seq) == {seq[k] : k \in 1..Len(seq)}
PermanentFailures ==
    {k \in LogIndexes : IsErr(batch_log[k].result)
                        /\ ~Err_is_retryable(batch_log[k].result)}
RetryableFailures ==
    {k \in LogIndexes : IsErr(batch_log[k].result)
                        /\ Err_is_retryable(batch_log[k].result)}
IdsOf(indexes) == {batch_log[k].portfolio_id : k \in indexes}

\* C12: when find_needing_embedding returns no portfolio, process_daily_batch
\* returns total = 0, success = 0, failed = 0, failedIds = [] and has called
\* neither process_single_portfolio, nor embed_passage, nor a storage write.
C12_EmptySelectionIsEmptySummary ==
    (BatchCompleted /\ batch.portfolios = <<>>) =>
        /\ batch_return = BatchResult(0, 0, 0, <<>>)
        /\ batch_log = <<>>
        /\ \A oid \in 1..Len(collection) : collection[oid] \in StoredDocs
C12_Witness ==
    /\ BatchCompleted /\ batch.portfolios = <<>>
    /\ Len(collection) = 2
    /\ batch_return.total = 0 /\ batch_return.failedIds = <<>>

\* C13: for a run that selects N portfolios of which exactly M end in a
\* non-retryable Err and the other N - M in Ok, the summary is total = N,
\* success = N - M, failed = M and failedIds holds exactly the ids of those M.
C13_SummaryCountsPermanentFailures ==
    (BatchCompleted /\ batch.portfolios # <<>> /\ RetryableFailures = {}) =>
        LET N == Len(batch.portfolios)
            M == Cardinality(PermanentFailures)
        IN  /\ Len(batch_log) = N
            /\ batch_return.total = N
            /\ batch_return.success = N - M
            /\ batch_return.failed = M
            /\ Len(batch_return.failedIds) = M
            /\ SeqRange(batch_return.failedIds) = IdsOf(PermanentFailures)
C13_Witness ==
    /\ BatchCompleted /\ RetryableFailures = {}
    /\ Len(batch.portfolios) = 3
    /\ Cardinality(PermanentFailures) = 2
    /\ batch_return = BatchResult(3, 1, 2, batch_return.failedIds)
    /\ Len(batch_return.failedIds) = 2

\* C14: in every returned summary failedIds holds the id of every portfolio
\* whose final Result was an Err, retryable or not, so that the length of
\* failedIds equals failed.
C14_FailedIdsHoldEveryFailure ==
    BatchCompleted =>
        /\ IdsOf(PermanentFailures \cup RetryableFailures)
              \subseteq SeqRange(batch_return.failedIds)
        /\ Len(batch_return.failedIds) = batch_return.failed

\* C15: a portfolio whose processing returns a retryable Err is attempted
\* again in the same run, up to the retry bound, before it is counted as
\* failed.
Attempts(pid) == Cardinality({k \in LogIndexes : batch_log[k].portfolio_id = pid})
C15_RetryableFailureIsRetried ==
    BatchCompleted =>
        \A k \in RetryableFailures :
            Attempts(batch_log[k].portfolio_id) = BS_max_retries

\* C16: process_daily_batch always ends by returning a summary, which the
\* scheduler keeps; when an exception escaped the selection query or the
\* loop the summary is total = 0, success = 0, failed = 0, failedIds = [].
C16_BatchAlwaysReturnsSummary ==
    /\ BatchDone =>
          /\ batch_return # None
          /\ last_result = batch_return
          /\ batch_return.total >= 0 /\ batch_return.success >= 0
          /\ batch_return.failed >= 0
    /\ ~BatchDone => (batch.i <= Len(batch.portfolios) + 1 /\ ENABLED BatchNext)
    /\ batch_raised # "no" =>
          (BatchDone /\ batch_return = BatchResult(0, 0, 0, <<>>))
C16_Witness ==
    /\ BatchDone /\ batch_raised = "loop"
    /\ Len(batch_log) = 2 /\ Len(batch.portfolios) = 3
    /\ batch_return = BatchResult(0, 0, 0, <<>>)
    /\ last_result = batch_return

\* C17: a run selects exactly the stored documents whose needsEmbedding is
\* true or that have an attachment with extractionStatus failed.
HasFailedAttachment(doc) ==
    \E pos \in Positions(doc) : AttachmentAt(doc, pos).extractionStatus = "failed"
C17_SelectionIsNeedsEmbeddingOrFailed ==
    (batch.pc \in {"loop", "done"} /\ batch_raised = "no" /\ batch_log = <<>>) =>
        {batch.portfolios[k].oid : k \in 1..Len(batch.portfolios)} =
            {oid \in 1..Len(collection) :
                collection[oid].needsEmbedding \/ HasFailedAttachment(collection[oid])}

(***************************************************************************)
(* Search orchestrator                                                     *)
(***************************************************************************)
SearchDone == search.pc = "done"
SearchCalled(name) == \E k \in 1..Len(search_calls) : search_calls[k] = name
EmbedQueryFailed ==
    /\ SearchCalled("embed_query")
    /\ (~truthy(strip(search.query)) \/ search.encode # "ok")

\* C18: when embed_query returns an Err, search_portfolios returns that same
\* Err (its class, cause and context) and calls neither vector_search, nor
\* the reranker, nor any analysis.
C18_QueryEmbeddingFailureReturned ==
    EmbedQueryFailed =>
        /\ SearchDone
        /\ IsErr(search_return)
        /\ search_return.error_type.cls =
              (IF ~truthy(strip(search.query)) THEN "InvalidDataError" ELSE "SystemError")
        /\ search_return.error_type.error =
              (IF ~truthy(strip(search.query))
               THEN "ValueError: Text cannot be empty" ELSE search.encode)
        /\ search_return.error_type.context = {"text_length"}
        /\ search_calls = <<"embed_query">>
C18_Witness ==
    /\ SearchDone
    /\ search.query = <<32, 113, 32>> /\ search.encode = "MemoryError"
    /\ IsErr(search_return) /\ search_return.error_type.error = "MemoryError"
    /\ search_calls = <<"embed_query">>

\* C19: when vector_search raises, search_portfolios returns an
\* Err(NetworkError), which is retryable, and calls neither the reranker nor
\* any analysis.
C19_VectorSearchFailureIsNetwork ==
    search.vector # "ok" =>
        /\ SearchDone
        /\ IsErr(search_return)
        /\ search_return.error_type.cls = "NetworkError"
        /\ search_return.error_type.error = search.vector
        /\ Err_is_retryable(search_return)
        /\ search_calls = <<"embed_query", "vector_search">>
C19_Witness ==
    /\ SearchDone /\ search.vector = "PyMongoError"
    /\ IsOk(search.embedding_result)
    /\ IsErr(search_return) /\ search_return.error_type.cls = "NetworkError"
    /\ ~SearchCalled("rerank")

\* C20: when vector_search returns no candidate, search_portfolios returns
\* Ok with status "success", an empty candidate list and totalResults = 0,
\* and calls neither the reranker nor any analysis.
C20_NoCandidateShortCircuits ==
    (/\ SearchCalled("vector_search")
     /\ search.vector = "ok" /\ search.search_results = <<>>) =>
        /\ SearchDone
        /\ IsOk(search_return)
        /\ search_return.value.status = "success"
        /\ search_return.value.candidates = <<>>
        /\ search_return.value.totalResults = 0
        /\ search_calls = <<"embed_query", "vector_search">>
C20_Witness ==
    /\ SearchDone /\ SearchCalled("vector_search")
    /\ search.vector = "ok" /\ search.search_results = <<>>
    /\ IsOk(search_return) /\ search_return.value.totalResults = 0
    /\ ~SearchCalled("rerank")

(***************************************************************************)
(* The analysis fan-out and the handler: what the claims speak of.         *)
(***************************************************************************)
TaskIds == DOMAIN tasks
AnalysisCalls == SeqSum([k \in TaskIds |-> tasks[k].calls])
Analysed == SearchDone /\ Len(search.reranked_results) > 0
InFlight == Cardinality({k \in TaskIds : tasks[k].state = "Running"})
Completed(k) == analysis_event.task = k
Capacity == settings.MAX_CONCURRENT_ANALYSIS

\* C21: when the reranker returns no candidate the search returns a success
\* with no candidate and totalResults = 0, and no analysis call is made.
C21_EmptyRerankShortCircuits ==
    (SearchCalled("rerank") /\ search.reranked_results = <<>>) =>
        /\ SearchDone
        /\ search_return = Ok(SearchResponse("success", <<>>, 0))
        /\ tasks = <<>> /\ AnalysisCalls = 0
        /\ analysis_event = NoCompletion
C21_Witness ==
    /\ SearchDone /\ SearchCalled("rerank")
    /\ Len(search.search_results) = MaxCandidates
    /\ search.reranked_results = <<>>
    /\ IsOk(search_return) /\ search_return.value.totalResults = 0

\* C22: at every moment the number of analysis calls in flight is at most
\* MAX_CONCURRENT_ANALYSIS.
C22_InFlightWithinCapacity == InFlight <= Capacity
C22_Witness ==
    /\ InFlight = Capacity
    /\ \E k \in TaskIds : tasks[k].state = "Pending"

\* C23: a candidate's analysis call is made again only after a RateLimit
\* failure and at most RATE_LIMIT_MAX_RETRIES times in all; after any other
\* failure, a deadline included, the candidate is discarded after that one
\* call with no further call and no sleep.
C23_OnlyRateLimitIsRetried ==
    \A k \in TaskIds :
        /\ tasks[k].calls <= settings.RATE_LIMIT_MAX_RETRIES
        /\ tasks[k].calls <= Len(tasks[k].slept) + 1
        /\ (Completed(k) /\ analysis_event.event.kind # "OpenAIRateLimitError") =>
              /\ Terminal(tasks[k])
              /\ tasks[k].calls = analysis_event.attempt + 1
              /\ Len(tasks[k].slept) = analysis_event.attempt
        /\ (Completed(k) /\ analysis_event.event.kind
                                \notin {"json", "OpenAIRateLimitError"}) =>
              tasks[k].state = "Discarded"
C23_Witness ==
    \E k \in TaskIds :
        /\ Completed(k) /\ analysis_event.event.kind = "OpenAIError"
        /\ analysis_event.attempt = 1
        /\ tasks[k].state = "Discarded" /\ tasks[k].calls = 2
        /\ Len(tasks[k].slept) = 1

\* C24: a candidate whose analysis call exceeds the deadline is discarded
\* without another call and is absent from the final list; the step leaves
\* every other task as it was, and the search still returns a success with
\* the results of the other candidates.
TimedOut(k) == Completed(k) /\ analysis_event.event.kind = "asyncio.TimeoutError"
ResultsOfOthers(k) ==
    SelectSeq([j \in TaskIds |-> IF j = k THEN None ELSE tasks[j].result],
              LAMBDA r : r # None)
C24_TimeoutDiscardsOneCandidate ==
    /\ [](\A k \in TaskIds : TimedOut(k) =>
            /\ tasks[k].state = "Discarded" /\ tasks[k].result = None
            /\ tasks[k].calls = analysis_event.attempt + 1
            /\ SearchDone =>
                  /\ IsOk(search_return)
                  /\ search_return.value.candidates = ResultsOfOthers(k))
    /\ [][\A k \in TaskIds :
            (tasks[k].state = "Running" /\ tasks'[k].state # "Running"
             /\ analysis_event'.event.kind = "asyncio.TimeoutError") =>
                \A j \in TaskIds \ {k} : tasks'[j] = tasks[j]]_vars
C24_Witness ==
    \E k \in TaskIds, j \in TaskIds :
        /\ TimedOut(k) /\ tasks[k].state = "Discarded"
        /\ tasks[j].state = "Succeeded"
        /\ SearchDone /\ search_return.value.candidates = <<tasks[j].result>>

\* C25: the final list is a subsequence of the reranked candidates: the
\* candidates whose analysis succeeded, each once, in the reranked order,
\* whatever the order of completion and across chunks.
SucceededIds ==
    SelectSeq([k \in TaskIds |-> k], LAMBDA k : tasks[k].state = "Succeeded")
C25_FinalListKeepsRerankedOrder ==
    Analysed =>
        /\ IsOk(search_return)
        /\ Len(search_return.value.candidates) = Len(SucceededIds)
        /\ \A i \in 1..Len(SucceededIds) :
              /\ search_return.value.candidates[i] = tasks[SucceededIds[i]].result
              /\ search_return.value.candidates[i].userId
                    = search.reranked_results[SucceededIds[i]].userId
C25_Witness ==
    /\ Analysed /\ Len(search_return.value.candidates) = 2
    /\ search.reranked_results[1].userId = 2
    /\ search_return.value.candidates[1].userId = 2
    /\ search_return.value.candidates[2].userId = 1
    /\ analysis_event.task = 1
    /\ settings.ANALYSIS_BATCH_SIZE = 2

\* C26: once the query embedding and the vector search have succeeded, the
\* search returns a success whatever failures, deadlines or exceptions the
\* analysis calls come to.
C26_AnalysisFailuresNeverFailSearch ==
    (SearchDone /\ IsOk(search.embedding_result)
        /\ SearchCalled("vector_search") /\ search.vector = "ok") =>
        /\ IsOk(search_return)
        /\ search_return.value.status = "success"
        /\ search_return.value.totalResults = Len(search_return.value.candidates)
C26_Witness ==
    /\ Analysed /\ Len(tasks) = 2
    /\ \A k \in TaskIds : tasks[k].state = "Discarded" /\ tasks[k].calls > 0
    /\ analysis_event.event.kind = "RuntimeError"
    /\ IsOk(search_return) /\ search_return.value.candidates = <<>>

\* C27: every CandidateResult has 0 <= matchScore <= 1; an analysis reply
\* whose matchScore is missing or outside that range is reported as an
\* InvalidData failure and its candidate is dropped, never clamped.
BadScore(event) ==
    event.kind = "json" /\ (~event.has_score \/ event.matchScore < 0
                            \/ event.matchScore > 10)
C27_MatchScoreWithinUnitRange ==
    /\ \A k \in TaskIds :
          /\ tasks[k].result # None =>
                (0 <= tasks[k].result.matchScore /\ tasks[k].result.matchScore <= 10)
          /\ (Completed(k) /\ BadScore(analysis_event.event)) =>
                /\ IsErr(analyze_candidate_match_async(analysis_event.event))
                /\ analyze_candidate_match_async(analysis_event.event).error_type.cls
                      = "InvalidDataError"
                /\ tasks[k].state = "Discarded" /\ tasks[k].result = None
    /\ (SearchDone /\ IsOk(search_return)) =>
          \A i \in 1..Len(search_return.value.candidates) :
              /\ 0 <= search_return.value.candidates[i].matchScore
              /\ search_return.value.candidates[i].matchScore <= 10
C27_Witness ==
    \E k \in TaskIds, j \in TaskIds :
        /\ Completed(k) /\ analysis_event.event = Reply("json", TRUE, 15)
        /\ tasks[k].state = "Discarded"
        /\ tasks[j].state = "Succeeded" /\ tasks[j].result.matchScore = 10

\* C28: the handler maps a success to the response, an InvalidData failure
\* to 400, any other retryable failure to 503 with that kind's retry_delay
\* as the retry delay, and every other failure to 500: each Result gets
\* one status code.
C28_BoundaryMapping ==
    http_response # None =>
        IF IsOk(search_return)
        THEN /\ http_response.status_code = 200
             /\ http_response.body = search_return.value
        ELSE /\ http_response.body = None
             /\ http_response.status_code =
                  (IF search_return.error_type.cls = "InvalidDataError" THEN 400
                   ELSE IF search_return.error_type.cls
                           \in {"NetworkError", "RateLimitError", "TimeoutError"}
                   THEN 503
                   ELSE 500)
             /\ http_response.status_code = 503 =>
                  /\ http_response.headers
                        = {<<"Retry-After", retry_delay(search_return.error_type)>>}
                  /\ http_response.detail.seconds
                        = retry_delay(search_return.error_type)
             /\ http_response.status_code # 503 => http_response.headers = {}
C28_Witness ==
    /\ http_response # None /\ IsErr(search_return)
    /\ search_return.error_type.cls = "RateLimitError"
    /\ http_response.status_code = 503
    /\ http_response.headers = {<<"Retry-After", 60>>}

\* C29: every reranked candidate's task reaches one of Succeeded and
\* Discarded and stays there; when the fan-out has finished every permit
\* is back and the semaphore's value is MAX_CONCURRENT_ANALYSIS again.
C29_TasksEndAndPermitsReturn ==
    /\ [](Analysed => /\ \A k \in TaskIds : Terminal(tasks[k])
                      /\ semaphore = Capacity)
    /\ [][\A k \in TaskIds : Terminal(tasks[k]) => tasks'[k] = tasks[k]]_vars
    /\ (search.pc = "analyze") ~> Analysed
C29_Witness ==
    /\ Analysed /\ Len(tasks) = 2 /\ semaphore = Capacity
    /\ tasks[1].state = "Succeeded" /\ tasks[1].calls = 2
    /\ tasks[2].state = "Discarded"

\* C30: no permit is held across an await other than the gated call: a task
\* sleeping in its rate-limit back-off holds no permit, so the permits
\* taken are those of the calls in flight.
C30_NoPermitHeldWhileSleeping ==
    search.pc = "analyze" => semaphore = Capacity - InFlight

\* ---------------------------------------------------------------------------
\* Claims on partial writes, faults and re-processing of one item
\* ---------------------------------------------------------------------------

\* the invocation ended in the except branch of the per-item operation
UnexpectedFault == Ran /\ inv.db \in DbFaults /\ StorageWrites(inv.calls) # {}
\* the invocation ended on the Failure of the embedding call
EmbeddingFailed ==
    Ran /\ truthy(inv.searchable_text) /\ inv.encode # "ok" /\ IsErr(inv.result)

\* C31: an invocation makes at most one storage write for its item, and when
\* it returns a Failure of the embedding call or of an unexpected fault the
\* stored document is the one from before the invocation.
C31_NoPartialWrite ==
    Ran =>
        /\ Cardinality(StorageWrites(inv.calls)) <= 1
        /\ (IsErr(inv.result) /\ (EmbeddingFailed \/ UnexpectedFault)) =>
               store = inv.stored_before

\* C31 witness: the attachment step changed a status in memory, the embedding
\* call failed and nothing was stored.
C31_Witness ==
    /\ EmbeddingFailed
    /\ mem # inv.input
    /\ StorageWrites(inv.calls) = {}
    /\ store = inv.stored_before

\* C33: an unexpected exception inside per-item processing is returned as a
\* SystemResource Failure (SystemError), which is not retryable.
C33_UnexpectedFaultIsSystemFailure ==
    UnexpectedFault =>
        /\ IsErr(inv.result)
        /\ inv.result.error_type.cls = "SystemError"
        /\ ~Err_is_retryable(inv.result)

\* ---------------------------------------------------------------------------
\* Claims on the submission of the selected items and on the summary's counts
\* ---------------------------------------------------------------------------

\* the ids of the portfolios the selection query returned, in loop order
SelectedIds == [k \in 1..Len(batch.portfolios) |-> str_id(batch.portfolios[k].oid)]
\* the ids process_single_portfolio was awaited with, in call order
SubmittedIds == [k \in LogIndexes |-> batch_log[k].portfolio_id]
IsPrefix(s, t) == Len(s) <= Len(t) /\ \A k \in 1..Len(s) : s[k] = t[k]

Backoff(j) ==
    settings.RATE_LIMIT_INITIAL_DELAY * Pow(settings.RATE_LIMIT_BACKOFF_MULTIPLIER, j)

\* C34: a candidate's task sleeps RATE_LIMIT_INITIAL_DELAY *
\* RATE_LIMIT_BACKOFF_MULTIPLIER^j before the retry after its j-th RateLimit
\* failure, one sleep per call that is retried, and none after the last
\* allowed attempt.
C34_BackoffIsConfiguredGeometric ==
    \A k \in TaskIds :
        /\ \A j \in 1..Len(tasks[k].slept) : tasks[k].slept[j] = Backoff(j - 1)
        /\ Len(tasks[k].slept) <= settings.RATE_LIMIT_MAX_RETRIES - 1
        /\ Len(tasks[k].slept) =
               tasks[k].attempt + (IF tasks[k].state = "Sleeping" THEN 1 ELSE 0)
        /\ tasks[k].calls > 0 =>
               tasks[k].calls = tasks[k].attempt + 1

\* C34 witness: a task that hit the rate limit on every allowed attempt slept
\* 2 and then 6 seconds under base 2 and multiplier 3, and not after the third.
C34_Witness ==
    /\ settings.RATE_LIMIT_INITIAL_DELAY = 2
    /\ settings.RATE_LIMIT_BACKOFF_MULTIPLIER = 3
    /\ settings.RATE_LIMIT_MAX_RETRIES = 3
    /\ tasks[1].state = "Discarded"
    /\ tasks[1].calls = 3
    /\ tasks[1].slept = <<2, 6>>
    /\ analysis_event.event.kind = "OpenAIRateLimitError"

\* ---------------------------------------------------------------------------
\* Claims on what the search boundary discloses
\* ---------------------------------------------------------------------------

\* the failure the handler received, with another cause
WithCause(result, cause) == Err([result.error_type EXCEPT !.error = cause])

IsInfix(sub, s) ==
    \E k \in 0..(Len(s) - Len(sub)) : SubSeq(s, k + 1, k + Len(sub)) = sub
\* the text the previous invocation extracted from the attachment at pos
ExtractedBefore(pos) ==
    extract_text(ocr_text(prev.files[pos], pos[1], pos[2]),
                 file_extension(AttachmentAt(prev.input, pos).filePath)).text
\* the previous invocation completed the attachment at pos and got text
CompletedBefore(pos) ==
    /\ prev.impl # "none"
    /\ AttachmentAt(prev.input, pos).extractionStatus # "completed"
    /\ AttachmentAt(inv.input, pos).extractionStatus = "completed"
    /\ truthy(ExtractedBefore(pos))

\* C36: when an item is processed again, the searchable text a successful
\* invocation persists contains the text of every attachment that is
\* completed, also of one completed (and now skipped) by an earlier attempt.
C36_CompletedTextSurvivesReprocessing ==
    (Ran /\ IsOk(inv.result) /\ Called(inv.calls, "embed_passage")) =>
        \A pos \in Positions(inv.input) :
            (CompletedBefore(pos)
             /\ AttachmentAt(mem, pos).extractionStatus = "completed") =>
                IsInfix(ExtractedBefore(pos), store.searchableText)

\* ---------------------------------------------------------------------------
\* Claims on what RetryExecutor.run returns
\* ---------------------------------------------------------------------------

\* C37: whatever the configuration and the task do, run returns an Ok or an
\* Err, never None, also when max_retries is 0 and the task is never awaited.
C37_RunReturnsResult ==
    rx_pc = "done" => (rx_return # None /\ (IsOk(rx_return) \/ IsErr(rx_return)))

\* ---------------------------------------------------------------------------
\* Claims on admission control across requests
\* ---------------------------------------------------------------------------

\* the analysis calls in flight over all the requests being served
TotalInFlight == SeqSum([r \in RequestIds |-> requests[r].running])

\* C38: with several search requests served at once, the analysis calls in
\* flight over all of them never exceed MAX_CONCURRENT_ANALYSIS.
C38_LimitSharedByRequests ==
    TotalInFlight <= settings.MAX_CONCURRENT_ANALYSIS

=============================================================================
